---- MODULE Spec2Model ----
(***************************************************************************)
(* Model of the server card (ServerCard.tsx): option selection, the        *)
(* configuration confirmation flags, the persisted confirmed               *)
(* configuration, the datacenter selection and the purchase-queue          *)
(* submission loop.                                                        *)
(*                                                                         *)
(* A handler sees the state of the render in which it was invoked: the     *)
(* part of an async handler that runs after an await still reads the       *)
(* values captured at the click, while its setState calls act on the       *)
(* current state.  An in-flight call therefore carries its captured        *)
(* values.                                                                 *)
(***************************************************************************)
EXTENDS Bags, FiniteSets, Integers, Sequences, TLC

\* ------------------------------------------------------------------ bounds
\* largest number of availability-check requests in flight at once
MaxInFlight == 2

\* ----------------------------------------------------------------- values
\* JavaScript null (useState<string | null>(null))
Null == "NULL"

\* localStorage.getItem(key) when the key is absent
NoItem == [exists |-> FALSE, parses |-> FALSE, members |-> << >>]

\* a localStorage item that JSON.parse rejects
Corrupt == [exists |-> TRUE, parses |-> FALSE, members |-> << >>]

\* the four configurable families, in the order getSelectedOptions walks them
Families == <<"memory", "storage", "bandwidth", "vrack">>

FamilySet == {Families[i] : i \in 1..Len(Families)}

\* displayedVrack when the plan has no matching vRack option
NoVrack == "noVrack"

\* the server prop of the card: one plan with two memory options (the first
\* is the plan's baseline), one storage option, which is the baseline, and no
\* bandwidth or vRack options
server ==
  [ name |-> "KS-1",
    planCode |-> "ks1",
    memory |-> "32GB",
    storage |-> "2xSSD",
    bandwidth |-> "1Gbps",
    vrack |-> "none",
    memoryOptions |-> << [code |-> "ram-32", formatted |-> "32GB"],
                         [code |-> "ram-64", formatted |-> "64GB"] >>,
    storageOptions |-> << [code |-> "ssd-2x", formatted |-> "2xSSD"] >>,
    bandwidthOptions |-> << >>,
    vrackOptions |-> << >> ]

\* server.<family>Options
OptionsOf(family) ==
  CASE family = "memory" -> server.memoryOptions
    [] family = "storage" -> server.storageOptions
    [] family = "bandwidth" -> server.bandwidthOptions
    [] family = "vrack" -> server.vrackOptions

\* server.<family>, the baseline specification shown for the family
BaseOf(family) ==
  CASE family = "memory" -> server.memory
    [] family = "storage" -> server.storage
    [] family = "bandwidth" -> server.bandwidth
    [] family = "vrack" -> server.vrack

\* the datacenters of the grid
DATACENTERS == <<"gra", "bhs">>

DatacenterSet == {DATACENTERS[i] : i \in 1..Len(DATACENTERS)}

\* the raw availability maps the provider may answer for the plan:
\* a datacenter maps to a raw status, or to Null when the map has no entry
ProviderAnswers ==
  { [present |-> TRUE, map |-> [dc \in DatacenterSet |-> "available"]] }

\* datacenterAvailability has no entry for the plan
NoAvailability == [present |-> FALSE, map |-> [dc \in DatacenterSet |-> Null]]

\* toast titles
ToastConfigConfirmed == "configConfirmed"
ToastCheckFailed == "checkFailed"
ToastDefaultConfirmed == "defaultConfirmed"
ToastNoDatacenter == "noDatacenter"
ToastAdding == "adding"
ToastAddSucceeded == "addSucceeded"
ToastAddFailed == "addFailed"

\* console messages (console.log / console.error); Silent: nothing written
Silent == "silent"
LogRestored == "log:restoredConfirmedConfig"
ErrRestoreFailed == "error:restoreFailed"
LogOptionChanged == "log:optionChangedNeedsConfirm"
LogSameOption == "log:sameOptionReselected"
LogCheckingConfig == "log:checkingConfig"
ErrCheckConfigFailed == "error:checkConfigFailed"
ErrCheckFailed == "error:checkFailed"
LogSendConfig == "log:sendConfig"
ErrAddToQueueFailed == "error:addToQueueFailed"

\* ---------------------------------------------------------------- helpers
\* useState initial values of the selection: nothing selected, the plan's
\* baseline displayed
InitialSelected == [f \in FamilySet |-> Null]

InitialDisplayed == [f \in FamilySet |-> BaseOf(f)]

\* server.<family>Options.find(opt => opt.formatted === server.<family>):
\* the code of the first matching option, Null when none matches
FindDefault(family) ==
  LET opts == OptionsOf(family)
      hits == {i \in 1..Len(opts) : opts[i].formatted = BaseOf(family)}
  IN IF hits = {} THEN Null
     ELSE opts[CHOOSE i \in hits : \A j \in hits : i <= j].code

\* getSelectedOptions: one {label, value} entry per family with a selected
\* code, in the order memory, storage, bandwidth, vrack
getSelectedOptions(sel) ==
  LET chosen == SelectSeq(Families, LAMBDA f : sel[f] # Null)
  IN [i \in 1..Len(chosen) |-> [label |-> chosen[i], value |-> sel[chosen[i]]]]

\* JSON encoding of one string | null value
JsonValue(v) == IF v = Null THEN <<"null">> ELSE <<"string", v>>

\* decoding of JsonValue
JsonDecode(j) == IF j[1] = "null" THEN Null ELSE j[2]

\* variant of JSONstringify: writes the displayed text where the code belongs
JSONstringify_displayAsCode(sel, disp) ==
  [ exists |-> TRUE,
    parses |-> TRUE,
    members |-> [i \in 1..Len(Families) |->
                   [key |-> Families[i],
                    code |-> JsonValue(disp[Families[i]]),
                    display |-> JsonValue(disp[Families[i]])]] ]

\* JSON.stringify(confirmedConfig): the text of the object
\* {memory: {code, display}, storage: ..., bandwidth: ..., vrack: ...},
\* as the list of its members in insertion order
JSONstringify(sel, disp) ==
  [ exists |-> TRUE,
    parses |-> TRUE,
    members |-> [i \in 1..Len(Families) |->
                   [key |-> Families[i],
                    code |-> JsonValue(sel[Families[i]]),
                    display |-> JsonValue(disp[Families[i]])]] ]

\* is JSON.parse(item).<family> truthy: the object has a member of that name
JSONhas(item, family) ==
  \E i \in 1..Len(item.members) : item.members[i].key = family

\* JSON.parse(item).<family>, for an object that has the member
JSONmember(item, family) ==
  LET hits == {i \in 1..Len(item.members) : item.members[i].key = family}
      m == item.members[CHOOSE i \in hits : \A j \in hits : i >= j]
  IN [code |-> JsonDecode(m.code), display |-> JsonDecode(m.display)]

\* variant of useEffectInit: the default selection also takes the confirmed
\* and the modified flag back
useEffectInit_defaultsResetFlags(st, item) ==
  IF item.exists /\ item.parses
  THEN [ selected |-> [f \in FamilySet |->
                         IF JSONhas(item, f)
                         THEN JSONmember(item, f).code ELSE st.selected[f]],
         displayed |-> [f \in FamilySet |->
                         IF JSONhas(item, f)
                         THEN JSONmember(item, f).display ELSE st.displayed[f]],
         configConfirmed |-> TRUE,
         configChanged |-> FALSE ]
  ELSE [ selected |-> [f \in FamilySet |->
                         IF Len(OptionsOf(f)) > 0 /\ FindDefault(f) # Null
                         THEN FindDefault(f) ELSE st.selected[f]],
         displayed |-> [f \in FamilySet |->
                         IF f = "vrack" /\ FindDefault(f) = Null
                         THEN NoVrack ELSE st.displayed[f]],
         configConfirmed |-> FALSE,
         configChanged |-> FALSE ]

\* variant of useEffectInit: an item that cannot be parsed still restores the
\* confirmed state
useEffectInit_confirmsOnAnyItem(st, item) ==
  IF item.exists
  THEN [ selected |-> [f \in FamilySet |->
                         IF JSONhas(item, f)
                         THEN JSONmember(item, f).code ELSE st.selected[f]],
         displayed |-> [f \in FamilySet |->
                         IF JSONhas(item, f)
                         THEN JSONmember(item, f).display ELSE st.displayed[f]],
         configConfirmed |-> TRUE,
         configChanged |-> FALSE ]
  ELSE [ selected |-> [f \in FamilySet |->
                         IF Len(OptionsOf(f)) > 0 /\ FindDefault(f) # Null
                         THEN FindDefault(f) ELSE st.selected[f]],
         displayed |-> [f \in FamilySet |->
                         IF f = "vrack" /\ FindDefault(f) = Null
                         THEN NoVrack ELSE st.displayed[f]],
         configConfirmed |-> st.configConfirmed,
         configChanged |-> st.configChanged ]

\* variant of useEffectInit: restoring a code that differs from the current
\* one marks the configuration as changed
useEffectInit_restoreCountsAsChange(st, item) ==
  IF item.exists /\ item.parses
  THEN [ selected |-> [f \in FamilySet |->
                         IF JSONhas(item, f)
                         THEN JSONmember(item, f).code ELSE st.selected[f]],
         displayed |-> [f \in FamilySet |->
                         IF JSONhas(item, f)
                         THEN JSONmember(item, f).display ELSE st.displayed[f]],
         configConfirmed |-> TRUE,
         configChanged |-> \E f \in FamilySet :
                             JSONhas(item, f) /\ JSONmember(item, f).code # st.selected[f] ]
  ELSE [ selected |-> [f \in FamilySet |->
                         IF Len(OptionsOf(f)) > 0 /\ FindDefault(f) # Null
                         THEN FindDefault(f) ELSE st.selected[f]],
         displayed |-> [f \in FamilySet |->
                         IF f = "vrack" /\ FindDefault(f) = Null
                         THEN NoVrack ELSE st.displayed[f]],
         configConfirmed |-> st.configConfirmed,
         configChanged |-> st.configChanged ]

\* the initialisation effect (useEffect on [server]) applied to the card
\* state st = [selected, displayed, configConfirmed, configChanged] with the
\* localStorage item `item'
useEffectInit(st, item) ==
  IF item.exists /\ item.parses
  THEN \* restore the confirmed configuration
       [ selected |-> [f \in FamilySet |->
                         IF JSONhas(item, f)
                         THEN JSONmember(item, f).code ELSE st.selected[f]],
         displayed |-> [f \in FamilySet |->
                         IF JSONhas(item, f)
                         THEN JSONmember(item, f).display ELSE st.displayed[f]],
         configConfirmed |-> TRUE,
         configChanged |-> FALSE ]
  ELSE \* no saved configuration, or restoring failed: default selection
       [ selected |-> [f \in FamilySet |->
                         IF Len(OptionsOf(f)) > 0 /\ FindDefault(f) # Null
                         THEN FindDefault(f) ELSE st.selected[f]],
         displayed |-> [f \in FamilySet |->
                         IF f = "vrack" /\ FindDefault(f) = Null
                         THEN NoVrack ELSE st.displayed[f]],
         configConfirmed |-> st.configConfirmed,
         configChanged |-> st.configChanged ]

\* what the initialisation effect writes to the console
MountLog(item) ==
  IF item.exists /\ item.parses THEN LogRestored
  ELSE IF item.exists THEN ErrRestoreFailed ELSE Silent

\* the card state right after mounting with the localStorage item `item'
Mounted(item) ==
  useEffectInit([selected |-> InitialSelected, displayed |-> InitialDisplayed,
                 configConfirmed |-> FALSE, configChanged |-> FALSE], item)

\* the selections the card can hold for this plan, with their displayed text
PossibleSelected ==
  { [f \in FamilySet |->
       CASE f = "memory" -> m [] f = "storage" -> s [] OTHER -> Null] :
    m \in {"ram-32", "ram-64"}, s \in {"ssd-2x"} }

DisplayedFor(sel) ==
  [f \in FamilySet |->
     IF sel[f] = Null THEN (IF f = "vrack" THEN NoVrack ELSE BaseOf(f))
     ELSE LET opts == OptionsOf(f)
          IN opts[CHOOSE i \in 1..Len(opts) : opts[i].code = sel[f]].formatted]

\* what localStorage can hold for the plan when the page loads
InitialItems ==
  {NoItem, Corrupt} \cup {JSONstringify(s, DisplayedFor(s)) : s \in PossibleSelected}

\* ------------------------------------------------------------------ state
VARIABLES
  selected,             \* selectedMemory/Storage/Bandwidth/Vrack, by family
  displayed,            \* displayedMemory/Storage/Bandwidth/Vrack, by family
  configChanged,        \* the modified flag
  configConfirmed,      \* the confirmed flag (opens the queue button)
  isChecking,
  isAddingToQueue,
  selectedDatacenters,  \* list of datacenter codes, in selection order
  savedConfig,          \* localStorage item confirmedConfig_<planCode>
  checks,               \* bag of in-flight onCheckAvailability calls
  run,                  \* the in-flight handleAddToQueue call, or NoRun
  isChecked,            \* checkedServers.includes(server.planCode)
  serverAvailability,   \* datacenterAvailability[server.planCode]
  location,             \* "servers" (card mounted) or "queue"
  toasts,               \* toast titles emitted by the latest step
  console,              \* last console message written by the latest step
  lastCheck,            \* the latest check this card's user triggered
  planCode,             \* server.planCode of the plan the card shows
  form,                 \* the add-task form: its values and its submission
  lookup                \* an availability lookup: its arguments and result

vars == << selected, displayed, configChanged, configConfirmed, isChecking,
           isAddingToQueue, selectedDatacenters, savedConfig, checks, run,
           isChecked, serverAvailability, location, toasts, console, lastCheck,
           planCode, form, lookup >>

\* what no step of the card touches: the plan shown, the add-task form (another
\* page) and the arguments of a lookup
cardFrame == << planCode, form, lookup >>

\* no check triggered since the card was mounted
NoCheck == [kind |-> "none", options |-> << >>]

\* no handleAddToQueue call in flight.  A call in flight holds the datacenter
\* list and the options it captured; index is the position in the list of the
\* createTask call that is awaited, and calls lists the serverConfig objects
\* passed to createTask so far, in the order of the calls
NoRun == [active |-> FALSE, datacenters |-> << >>, options |-> << >>, index |-> 0,
          calls |-> << >>]

\* the add-task form is not open
NoForm == [status |-> "closed", calls |-> << >>]

\* no availability lookup is being made
NoLookup == [status |-> "none"]

Init ==
  /\ savedConfig \in InitialItems
  /\ selected = Mounted(savedConfig).selected
  /\ displayed = Mounted(savedConfig).displayed
  /\ configConfirmed = Mounted(savedConfig).configConfirmed
  /\ configChanged = Mounted(savedConfig).configChanged
  /\ isChecking = FALSE
  /\ isAddingToQueue = FALSE
  /\ selectedDatacenters = << >>
  /\ checks = EmptyBag
  /\ run = NoRun
  /\ isChecked = FALSE
  /\ serverAvailability = NoAvailability
  /\ location = "servers"
  /\ toasts = << >>
  /\ console = MountLog(savedConfig)
  /\ lastCheck = NoCheck
  /\ planCode = server.planCode
  /\ form = NoForm
  /\ lookup = NoLookup

\* ------------------------------------------------------- option selection
\* variant of handleSelectOption: a real change also resets the confirmed flag
handleSelectOption_resetsConfirmed(family, optionCode, displayText) ==
  LET isRealChange == selected[family] # optionCode
  IN /\ selected' = [selected EXCEPT ![family] = optionCode]
     /\ displayed' = [displayed EXCEPT ![family] = displayText]
     /\ configChanged' = IF isRealChange THEN TRUE ELSE configChanged
     /\ console' = IF isRealChange THEN LogOptionChanged ELSE LogSameOption
     /\ configConfirmed' = IF isRealChange THEN FALSE ELSE configConfirmed

\* variant of handleSelectOption: every call counts as a change
handleSelectOption_everyCallIsAChange(family, optionCode, displayText) ==
  /\ selected' = [selected EXCEPT ![family] = optionCode]
  /\ displayed' = [displayed EXCEPT ![family] = displayText]
  /\ configChanged' = TRUE
  /\ console' = IF selected[family] # optionCode THEN LogOptionChanged
                ELSE LogSameOption
  /\ UNCHANGED configConfirmed

\* handleSelectOption(family, optionCode, displayText)
handleSelectOption(family, optionCode, displayText) ==
  LET isRealChange == selected[family] # optionCode
  IN /\ selected' = [selected EXCEPT ![family] = optionCode]
     /\ displayed' = [displayed EXCEPT ![family] = displayText]
     /\ configChanged' = IF isRealChange THEN TRUE ELSE configChanged
     /\ console' = IF isRealChange THEN LogOptionChanged ELSE LogSameOption
     /\ UNCHANGED configConfirmed

\* click on an option of a family's tab
SelectOption ==
  /\ UNCHANGED cardFrame
  /\ location = "servers"
  /\ \E f \in FamilySet : \E i \in 1..Len(OptionsOf(f)) :
       handleSelectOption(f, OptionsOf(f)[i].code, OptionsOf(f)[i].formatted)
  /\ toasts' = << >>
  /\ UNCHANGED lastCheck
  /\ UNCHANGED << isChecking, isAddingToQueue, selectedDatacenters, savedConfig,
                  checks, run, isChecked, serverAvailability, location >>

\* ----------------------------------------------------- availability checks
\* an in-flight onCheckAvailability call: which handler awaits it, the
\* options it sent (none for the default configuration) and the selection the
\* handler captured
CheckCall(kind, options) ==
  [kind |-> kind, options |-> options, selected |-> selected,
   displayed |-> displayed]

\* is the card that issued the in-flight calls still mounted (after
\* navigate('/queue') it is not; its calls stay in flight)
cardMounted == location = "servers"

\* handleCheckConfigAvailability up to its await
handleCheckConfigAvailability ==
  /\ isChecking' = TRUE
  /\ checks' = checks (+) SetToBag({CheckCall("config", getSelectedOptions(selected))})
  /\ lastCheck' = [kind |-> "config", options |-> getSelectedOptions(selected)]

\* handleCheckDefaultAvailability up to its await
handleCheckDefaultAvailability ==
  /\ isChecking' = TRUE
  /\ checks' = checks (+) SetToBag({CheckCall("default", << >>)})
  /\ lastCheck' = [kind |-> "default", options |-> << >>]

\* hasBeenCheckedAvailability(datacenterId)
hasBeenCheckedAvailability(dc) ==
  IF ~serverAvailability.present THEN FALSE
  ELSE isChecked /\ serverAvailability.map[dc] # Null

\* the confirm-configuration button (disabled while isChecking)
ClickConfirmConfig ==
  /\ UNCHANGED cardFrame
  /\ location = "servers"
  /\ ~isChecking
  /\ BagCardinality(checks) < MaxInFlight
  /\ handleCheckConfigAvailability
  /\ toasts' = << >>
  /\ console' = LogCheckingConfig
  /\ UNCHANGED << selected, displayed, configChanged, configConfirmed,
                  isAddingToQueue, selectedDatacenters, savedConfig, run,
                  isChecked, serverAvailability, location >>

\* the confirm-default button (disabled while isChecking)
ClickConfirmDefault ==
  /\ UNCHANGED cardFrame
  /\ location = "servers"
  /\ ~isChecking
  /\ BagCardinality(checks) < MaxInFlight
  /\ handleCheckDefaultAvailability
  /\ toasts' = << >>
  /\ console' = Silent
  /\ UNCHANGED << selected, displayed, configChanged, configConfirmed,
                  isAddingToQueue, selectedDatacenters, savedConfig, run,
                  isChecked, serverAvailability, location >>

\* the check button of a datacenter tile that has not been checked yet
\* (the button carries no disabled attribute)
ClickDatacenterCheck ==
  /\ UNCHANGED cardFrame
  /\ location = "servers"
  /\ \E dc \in DatacenterSet : ~hasBeenCheckedAvailability(dc)
  /\ BagCardinality(checks) < MaxInFlight
  /\ handleCheckDefaultAvailability
  /\ toasts' = << >>
  /\ console' = Silent
  /\ UNCHANGED << selected, displayed, configChanged, configConfirmed,
                  isAddingToQueue, selectedDatacenters, savedConfig, run,
                  isChecked, serverAvailability, location >>

\* variant of resumeCheckConfig: the confirmation is set after the try block,
\* whether or not the call was rejected
resumeCheckConfig_confirmsAlways(c, ok) ==
  /\ configConfirmed' = IF cardMounted THEN TRUE ELSE configConfirmed
  /\ configChanged' = IF cardMounted THEN FALSE ELSE configChanged
  /\ savedConfig' = IF ok THEN JSONstringify(c.selected, c.displayed)
                          ELSE savedConfig
  /\ toasts' = IF ok THEN <<ToastConfigConfirmed>> ELSE <<ToastCheckFailed>>
  /\ console' = IF ok THEN Silent ELSE ErrCheckConfigFailed
  /\ isChecking' = IF cardMounted THEN FALSE ELSE isChecking

\* the rest of handleCheckConfigAvailability after the awaited call `c'
\* resolved (ok) or was rejected.  setState calls of an unmounted card are
\* dropped; the localStorage write and the toast are not.
resumeCheckConfig(c, ok) ==
  /\ configConfirmed' = IF ok /\ cardMounted THEN TRUE ELSE configConfirmed
  /\ configChanged' = IF ok /\ cardMounted THEN FALSE ELSE configChanged
  /\ savedConfig' = IF ok THEN JSONstringify(c.selected, c.displayed)
                          ELSE savedConfig
  /\ toasts' = IF ok THEN <<ToastConfigConfirmed>> ELSE <<ToastCheckFailed>>
  /\ console' = IF ok THEN Silent ELSE ErrCheckConfigFailed
  /\ isChecking' = IF cardMounted THEN FALSE ELSE isChecking

\* variant of resumeCheckDefault: the flag is cleared after the toast of a
\* successful check, not in a finally block
resumeCheckDefault_noFinally(c, ok) ==
  /\ configConfirmed' = IF ok /\ cardMounted THEN TRUE ELSE configConfirmed
  /\ UNCHANGED << configChanged, savedConfig >>
  /\ toasts' = IF ok THEN <<ToastDefaultConfirmed>> ELSE << >>
  /\ console' = IF ok THEN Silent ELSE ErrCheckFailed
  /\ isChecking' = IF ok /\ cardMounted THEN FALSE ELSE isChecking

\* the rest of handleCheckDefaultAvailability after the awaited call
resumeCheckDefault(c, ok) ==
  /\ configConfirmed' = IF ok /\ cardMounted THEN TRUE ELSE configConfirmed
  /\ UNCHANGED << configChanged, savedConfig >>
  /\ toasts' = IF ok THEN <<ToastDefaultConfirmed>> ELSE << >>
  /\ console' = IF ok THEN Silent ELSE ErrCheckFailed
  /\ isChecking' = IF cardMounted THEN FALSE ELSE isChecking

\* an in-flight check resolves: the parent page stores the provider's answer
\* and marks the plan checked, then the awaiting handler resumes
CheckSucceeds ==
  /\ UNCHANGED cardFrame
  /\ \E c \in BagToSet(checks) :
       /\ checks' = checks (-) SetToBag({c})
       /\ IF c.kind = "config" THEN resumeCheckConfig(c, TRUE)
                               ELSE resumeCheckDefault(c, TRUE)
  /\ isChecked' = TRUE
  /\ serverAvailability' \in ProviderAnswers
  /\ UNCHANGED lastCheck
  /\ UNCHANGED << selected, displayed, isAddingToQueue, selectedDatacenters,
                  run, location >>

\* an in-flight check is rejected
CheckFails ==
  /\ UNCHANGED cardFrame
  /\ \E c \in BagToSet(checks) :
       /\ checks' = checks (-) SetToBag({c})
       /\ IF c.kind = "config" THEN resumeCheckConfig(c, FALSE)
                               ELSE resumeCheckDefault(c, FALSE)
  /\ UNCHANGED lastCheck
  /\ UNCHANGED << selected, displayed, isAddingToQueue, selectedDatacenters,
                  run, isChecked, serverAvailability, location >>

\* ---------------------------------------------------- datacenter selection
\* variant of toggleDatacenter: an identifier that is in the list is moved to
\* its end and a second copy of it is kept
toggleDatacenter_keepsCopy(prev, datacenterId) ==
  IF \E i \in 1..Len(prev) : prev[i] = datacenterId
  THEN IF Len(SelectSeq(prev, LAMBDA id : id = datacenterId)) = 1
       THEN Append(prev, datacenterId)
       ELSE SelectSeq(prev, LAMBDA id : id # datacenterId)
  ELSE Append(prev, datacenterId)

\* toggleDatacenter(datacenterId), a functional update of the current list
toggleDatacenter(prev, datacenterId) ==
  IF \E i \in 1..Len(prev) : prev[i] = datacenterId
  THEN SelectSeq(prev, LAMBDA id : id # datacenterId)
  ELSE Append(prev, datacenterId)

\* click on the tile of datacenter dc
ClickTile(dc) ==
  /\ UNCHANGED cardFrame
  /\ location = "servers"
  /\ selectedDatacenters' = toggleDatacenter(selectedDatacenters, dc)
  /\ toasts' = << >>
  /\ console' = Silent
  /\ UNCHANGED lastCheck
  /\ UNCHANGED << selected, displayed, configChanged, configConfirmed,
                  isChecking, isAddingToQueue, savedConfig, checks, run,
                  isChecked, serverAvailability, location >>

\* click on a datacenter tile
ToggleDatacenter == \E dc \in DatacenterSet : ClickTile(dc)

\* the clear-selection button, rendered while the list is not empty
ClearDatacenters ==
  /\ UNCHANGED cardFrame
  /\ location = "servers"
  /\ Len(selectedDatacenters) > 0
  /\ selectedDatacenters' = << >>
  /\ toasts' = << >>
  /\ console' = Silent
  /\ UNCHANGED lastCheck
  /\ UNCHANGED << selected, displayed, configChanged, configConfirmed,
                  isChecking, isAddingToQueue, savedConfig, checks, run,
                  isChecked, serverAvailability, location >>

\* ------------------------------------------------------- queue submission
\* The numbers of a task are counted in halves, so that a number that is not
\* an integer can be told from the integers: Number(n) is the integer n,
\* Number(n) + 1 is n + 0.5.
Number(n) == 2 * n

\* variant of ServerConfig: the task name does not mention the datacenter
ServerConfig_nameWithoutDatacenter(datacenterId, frontendOptions) ==
  [ name |-> <<server.name>>,
    planCode |-> planCode,
    options |-> frontendOptions,
    duration |-> "P1M",
    datacenter |-> datacenterId,
    quantity |-> Number(1),
    os |-> "none_64.en",
    maxRetries |-> Number(-1),
    taskInterval |-> Number(60) ]

\* the serverConfig object built for one datacenter; the name stands for
\* `${server.name} (${datacenterId})`
ServerConfig(datacenterId, frontendOptions) ==
  [ name |-> <<server.name, datacenterId>>,
    planCode |-> planCode,
    options |-> frontendOptions,
    duration |-> "P1M",
    datacenter |-> datacenterId,
    quantity |-> Number(1),
    os |-> "none_64.en",
    maxRetries |-> Number(-1),
    taskInterval |-> Number(60) ]

\* variant of QueueButtonEnabled: the confirmed flag is not consulted
QueueButtonEnabled_ignoresConfirmed ==
  ~(Len(selectedDatacenters) = 0 \/ isAddingToQueue)

\* variant of QueueButtonEnabled: the in-flight flag is not consulted
QueueButtonEnabled_ignoresInFlight ==
  ~(~configConfirmed \/ Len(selectedDatacenters) = 0)

\* the add-to-queue button is enabled
QueueButtonEnabled ==
  ~(~configConfirmed \/ Len(selectedDatacenters) = 0 \/ isAddingToQueue)

\* variant of handleAddToQueue: the empty selection is not refused, the loop
\* runs over the empty list and the submission goes on to report success
handleAddToQueue_noEmptyCheck ==
  LET frontendOptions == getSelectedOptions(selected)
  IN /\ toasts' = <<ToastAdding>>
     /\ console' = LogSendConfig
     /\ isAddingToQueue' = TRUE
     /\ run' = [active |-> TRUE, datacenters |-> selectedDatacenters,
                options |-> frontendOptions,
                index |-> IF Len(selectedDatacenters) = 0 THEN 0 ELSE 1,
                calls |-> IF Len(selectedDatacenters) = 0 THEN << >>
                          ELSE << ServerConfig(selectedDatacenters[1],
                                               frontendOptions) >>]

\* handleAddToQueue up to its first await
handleAddToQueue ==
  IF Len(selectedDatacenters) = 0
  THEN /\ toasts' = <<ToastNoDatacenter>>
       /\ console' = Silent
       /\ isAddingToQueue' = FALSE
       /\ UNCHANGED run
  ELSE LET frontendOptions == getSelectedOptions(selected)
       IN /\ toasts' = <<ToastAdding>>
          /\ console' = LogSendConfig
          /\ isAddingToQueue' = TRUE
          /\ run' = [active |-> TRUE, datacenters |-> selectedDatacenters,
                     options |-> frontendOptions, index |-> 1,
                     calls |-> << ServerConfig(selectedDatacenters[1],
                                               frontendOptions) >>]

\* click on the add-to-queue button
ClickAddToQueue ==
  /\ UNCHANGED cardFrame
  /\ location = "servers"
  /\ QueueButtonEnabled
  /\ handleAddToQueue
  /\ UNCHANGED lastCheck
  /\ UNCHANGED << selected, displayed, configChanged, configConfirmed,
                  isChecking, selectedDatacenters, savedConfig, checks,
                  isChecked, serverAvailability, location >>

\* variant of CreateTaskSucceeds: each task is built from the options that
\* are selected when its call is issued
CreateTaskSucceeds_readsLiveSelection ==
  /\ UNCHANGED cardFrame
  /\ run.active
  /\ IF run.index < Len(run.datacenters)
     THEN /\ run' = [run EXCEPT
                       !.index = run.index + 1,
                       !.calls = Append(run.calls,
                                   ServerConfig(run.datacenters[run.index + 1],
                                                getSelectedOptions(selected)))]
          /\ toasts' = << >>
          /\ console' = LogSendConfig
          /\ UNCHANGED << selectedDatacenters, location, isAddingToQueue >>
     ELSE /\ run' = NoRun
          /\ toasts' = <<ToastAddSucceeded>>
          /\ console' = Silent
          /\ selectedDatacenters' = << >>
          /\ location' = "queue"
          /\ isAddingToQueue' = FALSE
  /\ UNCHANGED lastCheck
  /\ UNCHANGED << selected, displayed, configChanged, configConfirmed,
                  isChecking, savedConfig, checks, isChecked, serverAvailability >>

\* variant of CreateTaskSucceeds: the submission reports success as soon as
\* one createTask call has succeeded
CreateTaskSucceeds_finishesAfterFirst ==
  /\ UNCHANGED cardFrame
  /\ run.active
  /\ run' = NoRun
  /\ toasts' = <<ToastAddSucceeded>>
  /\ console' = Silent
  /\ selectedDatacenters' = << >>
  /\ location' = "queue"
  /\ isAddingToQueue' = FALSE
  /\ UNCHANGED lastCheck
  /\ UNCHANGED << selected, displayed, configChanged, configConfirmed,
                  isChecking, savedConfig, checks, isChecked, serverAvailability >>

\* variant of CreateTaskSucceeds: a finished run takes only its own
\* datacenters out of the selection
CreateTaskSucceeds_keepsLateSelection ==
  /\ UNCHANGED cardFrame
  /\ run.active
  /\ IF run.index < Len(run.datacenters)
     THEN /\ run' = [run EXCEPT
                       !.index = run.index + 1,
                       !.calls = Append(run.calls,
                                   ServerConfig(run.datacenters[run.index + 1],
                                                run.options))]
          /\ toasts' = << >>
          /\ console' = LogSendConfig
          /\ UNCHANGED << selectedDatacenters, location, isAddingToQueue >>
     ELSE /\ run' = NoRun
          /\ toasts' = <<ToastAddSucceeded>>
          /\ console' = Silent
          /\ selectedDatacenters' =
               SelectSeq(selectedDatacenters,
                         LAMBDA id : \A i \in 1..Len(run.datacenters) :
                                       run.datacenters[i] # id)
          /\ location' = "queue"
          /\ isAddingToQueue' = FALSE
  /\ UNCHANGED lastCheck
  /\ UNCHANGED << selected, displayed, configChanged, configConfirmed,
                  isChecking, savedConfig, checks, isChecked, serverAvailability >>

\* the pending createTask call resolves: the loop goes on to the next
\* datacenter of the captured list, or finishes
CreateTaskSucceeds ==
  /\ UNCHANGED cardFrame
  /\ run.active
  /\ IF run.index < Len(run.datacenters)
     THEN /\ run' = [run EXCEPT
                       !.index = run.index + 1,
                       !.calls = Append(run.calls,
                                   ServerConfig(run.datacenters[run.index + 1],
                                                run.options))]
          /\ toasts' = << >>
          /\ console' = LogSendConfig
          /\ UNCHANGED << selectedDatacenters, location, isAddingToQueue >>
     ELSE /\ run' = NoRun
          /\ toasts' = <<ToastAddSucceeded>>
          /\ console' = Silent
          /\ selectedDatacenters' = << >>
          /\ location' = "queue"
          /\ isAddingToQueue' = FALSE
  /\ UNCHANGED lastCheck
  /\ UNCHANGED << selected, displayed, configChanged, configConfirmed,
                  isChecking, savedConfig, checks, isChecked, serverAvailability >>

\* variant of CreateTaskFails: the failure takes the confirmation back
CreateTaskFails_resetsConfirmed ==
  /\ UNCHANGED cardFrame
  /\ run.active
  /\ run' = NoRun
  /\ toasts' = <<ToastAddFailed>>
  /\ isAddingToQueue' = FALSE
  /\ console' = ErrAddToQueueFailed
  /\ configConfirmed' = FALSE
  /\ UNCHANGED lastCheck
  /\ UNCHANGED << selected, displayed, configChanged, isChecking,
                  selectedDatacenters, savedConfig, checks, isChecked,
                  serverAvailability, location >>

\* variant of CreateTaskFails: the datacenters whose tasks were created are
\* taken out of the selection
CreateTaskFails_dropsCreated ==
  /\ UNCHANGED cardFrame
  /\ run.active
  /\ run' = NoRun
  /\ toasts' = <<ToastAddFailed>>
  /\ isAddingToQueue' = FALSE
  /\ console' = ErrAddToQueueFailed
  /\ selectedDatacenters' =
       SelectSeq(selectedDatacenters,
                 LAMBDA id : \A i \in 1..(run.index - 1) :
                               run.datacenters[i] # id)
  /\ UNCHANGED lastCheck
  /\ UNCHANGED << selected, displayed, configChanged, configConfirmed,
                  isChecking, savedConfig, checks, isChecked,
                  serverAvailability, location >>

\* variant of CreateTaskFails: the failure empties the datacenter selection
CreateTaskFails_clearsSelection ==
  /\ UNCHANGED cardFrame
  /\ run.active
  /\ run' = NoRun
  /\ toasts' = <<ToastAddFailed>>
  /\ isAddingToQueue' = FALSE
  /\ console' = ErrAddToQueueFailed
  /\ selectedDatacenters' = << >>
  /\ UNCHANGED lastCheck
  /\ UNCHANGED << selected, displayed, configChanged, configConfirmed,
                  isChecking, savedConfig, checks, isChecked,
                  serverAvailability, location >>

\* the pending createTask call is rejected: the loop is left through catch
CreateTaskFails ==
  /\ UNCHANGED cardFrame
  /\ run.active
  /\ run' = NoRun
  /\ toasts' = <<ToastAddFailed>>
  /\ isAddingToQueue' = FALSE
  /\ console' = ErrAddToQueueFailed
  /\ UNCHANGED lastCheck
  /\ UNCHANGED << selected, displayed, configChanged, configConfirmed,
                  isChecking, selectedDatacenters, savedConfig, checks,
                  isChecked, serverAvailability, location >>

\* ------------------------------------------------------------- (re)mounting
\* a fresh card: useState initial values, then the initialisation effect
FreshCard ==
  /\ selected' = Mounted(savedConfig).selected
  /\ displayed' = Mounted(savedConfig).displayed
  /\ configConfirmed' = Mounted(savedConfig).configConfirmed
  /\ configChanged' = Mounted(savedConfig).configChanged
  /\ isChecking' = FALSE
  /\ isAddingToQueue' = FALSE
  /\ selectedDatacenters' = << >>
  /\ location' = "servers"
  /\ toasts' = << >>
  /\ console' = MountLog(savedConfig)
  /\ lastCheck' = NoCheck
  /\ \/ UNCHANGED << isChecked, serverAvailability >>
     \/ isChecked' = FALSE /\ serverAvailability' = NoAvailability
  /\ UNCHANGED savedConfig

\* the page is reloaded: everything in flight is abandoned
Reload ==
  /\ UNCHANGED cardFrame
  /\ location = "servers"
  /\ FreshCard
  /\ checks' = EmptyBag
  /\ run' = NoRun

\* the user comes back from the queue page and a new card is mounted.  The
\* exploration lets the user come back once the calls of the previous card
\* have been answered.
NavigateBack ==
  /\ UNCHANGED cardFrame
  /\ location = "queue"
  /\ checks = EmptyBag
  /\ FreshCard
  /\ UNCHANGED << checks, run >>

Next ==
  \/ SelectOption
  \/ ClickConfirmConfig
  \/ ClickConfirmDefault
  \/ ClickDatacenterCheck
  \/ CheckSucceeds
  \/ CheckFails
  \/ ToggleDatacenter
  \/ ClearDatacenters
  \/ ClickAddToQueue
  \/ CreateTaskSucceeds
  \/ CreateTaskFails
  \/ Reload
  \/ NavigateBack

Spec == Init /\ [][Next]_vars

\* ------------------------------------------- handleAddToQueue on its own
\* The handler applied to the states of a card, whether or not the button
\* that calls it is enabled.
\* plan codes a server object can carry
PlanCodes == {server.planCode, ""}

\* lists of distinct datacenter codes, the empty list included
DatacenterLists ==
  {<< >>} \cup {<<d>> : d \in DatacenterSet}
          \cup {<<d, e>> : <<d, e>> \in {x \in DatacenterSet \X DatacenterSet :
                                            x[1] # x[2]}}

HandlerInit ==
  /\ planCode \in PlanCodes
  /\ selected \in PossibleSelected
  /\ displayed = DisplayedFor(selected)
  /\ configConfirmed \in BOOLEAN
  /\ configChanged \in BOOLEAN
  /\ selectedDatacenters \in DatacenterLists
  /\ savedConfig = NoItem
  /\ isChecking = FALSE
  /\ isAddingToQueue = FALSE
  /\ checks = EmptyBag
  /\ run = NoRun
  /\ isChecked = FALSE
  /\ serverAvailability = NoAvailability
  /\ location = "servers"
  /\ toasts = << >>
  /\ console = Silent
  /\ lastCheck = NoCheck
  /\ form = NoForm
  /\ lookup = NoLookup

\* handleAddToQueue is called
CallAddToQueue ==
  /\ UNCHANGED cardFrame
  /\ location = "servers"
  /\ ~run.active
  /\ handleAddToQueue
  /\ UNCHANGED lastCheck
  /\ UNCHANGED << selected, displayed, configChanged, configConfirmed,
                  isChecking, selectedDatacenters, savedConfig, checks,
                  isChecked, serverAvailability, location >>

HandlerNext ==
  \/ CallAddToQueue
  \/ CreateTaskSucceeds
  \/ CreateTaskFails

SpecHandler == HandlerInit /\ [][HandlerNext]_vars

\* ------------------------------------------- the calls of a card in flight
\* The availability checks and the submissions of a mounted card, with
\* handleAddToQueue called whether or not its button is enabled.
InFlightNext ==
  \/ ClickConfirmConfig
  \/ ClickConfirmDefault
  \/ ClickDatacenterCheck
  \/ CheckSucceeds
  \/ CheckFails
  \/ ToggleDatacenter
  \/ CallAddToQueue
  \/ CreateTaskSucceeds
  \/ CreateTaskFails

SpecInFlight == Init /\ [][InFlightNext]_vars

\* ------------------------------------- the server prop of a mounted card
\* The parent page hands the mounted card a new server object for the same
\* plan (the server list was fetched again): the initialisation effect, which
\* depends on [server], runs again on the state the card is in.
ServerChanged ==
  /\ UNCHANGED cardFrame
  /\ location = "servers"
  /\ LET st == useEffectInit([selected |-> selected, displayed |-> displayed,
                              configConfirmed |-> configConfirmed,
                              configChanged |-> configChanged], savedConfig)
     IN /\ selected' = st.selected
        /\ displayed' = st.displayed
        /\ configConfirmed' = st.configConfirmed
        /\ configChanged' = st.configChanged
  /\ console' = MountLog(savedConfig)
  /\ toasts' = << >>
  /\ UNCHANGED << isChecking, isAddingToQueue, selectedDatacenters,
                  savedConfig, checks, run, isChecked, serverAvailability,
                  location, lastCheck >>

RerunNext ==
  \/ SelectOption
  \/ ClickConfirmConfig
  \/ ClickConfirmDefault
  \/ CheckSucceeds
  \/ CheckFails
  \/ ServerChanged

SpecRerun == Init /\ [][RerunNext]_vars

\* ------------------------------------------- the saved items of two plans
\* The servers page shows one card per plan.  In this part savedConfig is
\* localStorage as a whole, a map from keys to items, and planCode is the
\* plan of the card that is looked at; the calls in flight remember the plan
\* of the card that issued them.
\* the plans of the page
StoragePlans == {server.planCode, "ks2"}

\* the template literal `confirmedConfig_${server.planCode}`
confirmedConfigKey(plan) == <<"confirmedConfig_", plan>>

StorageKeys == {confirmedConfigKey(plan) : plan \in StoragePlans}

\* what a key can hold when the page loads
StorageItems ==
  {NoItem,
   JSONstringify([f \in FamilySet |->
                    CASE f = "memory" -> "ram-64" [] f = "storage" -> "ssd-2x"
                      [] OTHER -> Null],
                 DisplayedFor([f \in FamilySet |->
                    CASE f = "memory" -> "ram-64" [] f = "storage" -> "ssd-2x"
                      [] OTHER -> Null]))}

\* localStorage.getItem(`confirmedConfig_${server.planCode}`)
localStorageGetItem(plan) == savedConfig[confirmedConfigKey(plan)]

\* an in-flight onCheckAvailability call of the card of plan planCode
StorageCall(kind) ==
  [kind |-> kind,
   options |-> IF kind = "config" THEN getSelectedOptions(selected) ELSE << >>,
   selected |-> selected, displayed |-> displayed, plan |-> planCode]

StorageInit ==
  /\ planCode \in StoragePlans
  /\ savedConfig \in [StorageKeys -> StorageItems]
  /\ selected = Mounted(localStorageGetItem(planCode)).selected
  /\ displayed = Mounted(localStorageGetItem(planCode)).displayed
  /\ configConfirmed = Mounted(localStorageGetItem(planCode)).configConfirmed
  /\ configChanged = Mounted(localStorageGetItem(planCode)).configChanged
  /\ isChecking = FALSE
  /\ isAddingToQueue = FALSE
  /\ selectedDatacenters = << >>
  /\ checks = EmptyBag
  /\ run = NoRun
  /\ isChecked = FALSE
  /\ serverAvailability = NoAvailability
  /\ location = "servers"
  /\ toasts = << >>
  /\ console = MountLog(localStorageGetItem(planCode))
  /\ lastCheck = NoCheck
  /\ form = NoForm
  /\ lookup = NoLookup

\* the confirm-configuration or confirm-default button of the card
StorageClickConfirm ==
  /\ location = "servers"
  /\ ~isChecking
  /\ BagCardinality(checks) < MaxInFlight
  /\ \E kind \in {"config", "default"} :
       /\ checks' = checks (+) SetToBag({StorageCall(kind)})
       /\ console' = IF kind = "config" THEN LogCheckingConfig ELSE Silent
  /\ isChecking' = TRUE
  /\ toasts' = << >>
  /\ UNCHANGED << selected, displayed, configChanged, configConfirmed,
                  isAddingToQueue, selectedDatacenters, savedConfig, run,
                  isChecked, serverAvailability, location, lastCheck,
                  planCode, form, lookup >>

\* variant of StorageCheckSucceeds: a default check saves the selection too
StorageCheckSucceeds_defaultPersists ==
  /\ \E c \in BagToSet(checks) :
       /\ checks' = checks (-) SetToBag({c})
       /\ savedConfig' =
            IF TRUE
            THEN [savedConfig EXCEPT ![confirmedConfigKey(c.plan)] =
                    JSONstringify(c.selected, c.displayed)]
            ELSE savedConfig
       /\ toasts' = IF c.kind = "config" THEN <<ToastConfigConfirmed>>
                    ELSE <<ToastDefaultConfirmed>>
       /\ IF c.plan = planCode
          THEN /\ configConfirmed' = TRUE
               /\ configChanged' = IF c.kind = "config" THEN FALSE
                                   ELSE configChanged
               /\ isChecking' = FALSE
          ELSE UNCHANGED << configConfirmed, configChanged, isChecking >>
  /\ console' = Silent
  /\ isChecked' = TRUE
  /\ serverAvailability' \in ProviderAnswers
  /\ UNCHANGED << selected, displayed, isAddingToQueue, selectedDatacenters,
                  run, location, lastCheck, planCode, form, lookup >>

\* an in-flight check resolves and the handler that awaits it resumes: the
\* setState calls go to the card that issued the call
StorageCheckSucceeds ==
  /\ \E c \in BagToSet(checks) :
       /\ checks' = checks (-) SetToBag({c})
       /\ savedConfig' =
            IF c.kind = "config"
            THEN [savedConfig EXCEPT ![confirmedConfigKey(c.plan)] =
                    JSONstringify(c.selected, c.displayed)]
            ELSE savedConfig
       /\ toasts' = IF c.kind = "config" THEN <<ToastConfigConfirmed>>
                    ELSE <<ToastDefaultConfirmed>>
       /\ IF c.plan = planCode
          THEN /\ configConfirmed' = TRUE
               /\ configChanged' = IF c.kind = "config" THEN FALSE
                                   ELSE configChanged
               /\ isChecking' = FALSE
          ELSE UNCHANGED << configConfirmed, configChanged, isChecking >>
  /\ console' = Silent
  /\ isChecked' = TRUE
  /\ serverAvailability' \in ProviderAnswers
  /\ UNCHANGED << selected, displayed, isAddingToQueue, selectedDatacenters,
                  run, location, lastCheck, planCode, form, lookup >>

\* an in-flight check is rejected
StorageCheckFails ==
  /\ \E c \in BagToSet(checks) :
       /\ checks' = checks (-) SetToBag({c})
       /\ toasts' = IF c.kind = "config" THEN <<ToastCheckFailed>> ELSE << >>
       /\ console' = IF c.kind = "config" THEN ErrCheckConfigFailed
                     ELSE ErrCheckFailed
       /\ isChecking' = IF c.plan = planCode THEN FALSE ELSE isChecking
  /\ UNCHANGED << selected, displayed, configChanged, configConfirmed,
                  isAddingToQueue, selectedDatacenters, savedConfig, run,
                  isChecked, serverAvailability, location, lastCheck,
                  planCode, form, lookup >>

\* the card of plan p is mounted anew and looked at (the page is reloaded, or
\* the user turns to the other card).  The exploration mounts a card once
\* the calls of the earlier card of that plan have been answered.
StorageMount ==
  /\ location = "servers"
  /\ \E p \in StoragePlans :
       /\ \A c \in BagToSet(checks) : c.plan # p
       /\ planCode' = p
       /\ selected' = Mounted(localStorageGetItem(p)).selected
       /\ displayed' = Mounted(localStorageGetItem(p)).displayed
       /\ configConfirmed' = Mounted(localStorageGetItem(p)).configConfirmed
       /\ configChanged' = Mounted(localStorageGetItem(p)).configChanged
       /\ console' = MountLog(localStorageGetItem(p))
  /\ isChecking' = FALSE
  /\ toasts' = << >>
  /\ UNCHANGED << isAddingToQueue, selectedDatacenters, savedConfig, checks,
                  run, isChecked, serverAvailability, location, lastCheck,
                  form, lookup >>

StorageNext ==
  \/ SelectOption
  \/ StorageClickConfirm
  \/ StorageCheckSucceeds
  \/ StorageCheckFails
  \/ StorageMount

SpecStorage == StorageInit /\ [][StorageNext]_vars

\* ---------------------------------------------------------- add-task form
\* the check of z.number().int()
IsInteger(x) == x % 2 = 0

\* how far around each limit of the schema the entered numbers are drawn
Margin == 1

AroundLimit(n) == (Number(n) - 2 * Margin)..(Number(n) + 2 * Margin)

\* values of the form when it is submitted
FormInputs ==
  [ name : {"", "task"},
    planCode : PlanCodes,
    datacenter : {"", DATACENTERS[1]},
    quantity : AroundLimit(1) \cup AroundLimit(5),
    maxRetries : AroundLimit(-1) \cup AroundLimit(100),
    taskInterval : AroundLimit(5) \cup AroundLimit(600) \cup {Number(60)} ]

\* z.number().int().min(min).max(max)
ZNumberIntMinMax(x, min, max) ==
  IsInteger(x) /\ x >= Number(min) /\ x <= Number(max)

\* variant of taskFormSchema: the upper limits are exclusive
taskFormSchema_exclusiveMax(values) ==
  {f \in {"name", "planCode", "datacenter"} : values[f] = ""}
  \cup (IF ZNumberIntMinMax(values.quantity, 1, 4) THEN {} ELSE {"quantity"})
  \cup (IF ZNumberIntMinMax(values.maxRetries, -1, 99) THEN {}
        ELSE {"maxRetries"})
  \cup (IF ZNumberIntMinMax(values.taskInterval, 5, 599) THEN {}
        ELSE {"taskInterval"})

\* taskFormSchema applied to the values: the fields that are in error
taskFormSchema(values) ==
  {f \in {"name", "planCode", "datacenter"} : values[f] = ""}
  \cup (IF ZNumberIntMinMax(values.quantity, 1, 5) THEN {} ELSE {"quantity"})
  \cup (IF ZNumberIntMinMax(values.maxRetries, -1, 100) THEN {}
        ELSE {"maxRetries"})
  \cup (IF ZNumberIntMinMax(values.taskInterval, 5, 600) THEN {}
        ELSE {"taskInterval"})

\* the serverConfig object built by createTaskMutation's mutationFn
mutationFn(values, selectedOptions) ==
  [ name |-> values.name,
    planCode |-> values.planCode,
    options |-> selectedOptions,
    duration |-> "P1M",
    datacenter |-> values.datacenter,
    quantity |-> values.quantity,
    os |-> "none_64.en",
    maxRetries |-> values.maxRetries,
    taskInterval |-> values.taskInterval ]

\* toast titles and the console message of the form
ToastTaskCreated == "taskCreated"
ToastCreateTaskFailed == "createTaskFailed"
ErrCreateTaskFailed == "error:createTaskFailed"

\* what no step of the form touches: the state of the card
formFrame ==
  << selected, displayed, configChanged, configConfirmed, isChecking,
     isAddingToQueue, selectedDatacenters, savedConfig, checks, run, isChecked,
     serverAvailability, lastCheck, planCode, lookup >>

FormInit ==
  /\ form \in [ status : {"editing"}, values : FormInputs,
                 selectedOptions : {<< >>}, errors : {{}}, calls : {<< >>},
                 catalogLoaded : {TRUE} ]
  /\ location = "new-task"
  /\ planCode = server.planCode
  /\ selected = InitialSelected
  /\ displayed = InitialDisplayed
  /\ configConfirmed = FALSE
  /\ configChanged = FALSE
  /\ selectedDatacenters = << >>
  /\ savedConfig = NoItem
  /\ isChecking = FALSE
  /\ isAddingToQueue = FALSE
  /\ checks = EmptyBag
  /\ run = NoRun
  /\ isChecked = FALSE
  /\ serverAvailability = NoAvailability
  /\ toasts = << >>
  /\ console = Silent
  /\ lastCheck = NoCheck
  /\ lookup = NoLookup

\* the form is submitted: form.handleSubmit validates the values with the
\* schema and calls onSubmit, which starts the mutation, when none is in error
SubmitForm ==
  /\ location = "new-task"
  /\ form.status \in {"editing", "invalid", "failed"}
  /\ LET errors == taskFormSchema(form.values)
     IN form' = IF errors = {}
                THEN [form EXCEPT
                        !.status = "pending",
                        !.errors = {},
                        !.calls = << mutationFn(form.values,
                                                form.selectedOptions) >>]
                ELSE [form EXCEPT !.status = "invalid", !.errors = errors]
  /\ toasts' = << >>
  /\ console' = Silent
  /\ UNCHANGED location
  /\ UNCHANGED formFrame

\* createTask resolves: onSuccess
TaskCreated ==
  /\ form.status = "pending"
  /\ form' = [form EXCEPT !.status = "created"]
  /\ toasts' = <<ToastTaskCreated>>
  /\ console' = Silent
  /\ location' = "queue"
  /\ UNCHANGED formFrame

\* createTask is rejected: onError
TaskRejected ==
  /\ form.status = "pending"
  /\ form' = [form EXCEPT !.status = "failed"]
  /\ toasts' = <<ToastCreateTaskFailed>>
  /\ console' = ErrCreateTaskFailed
  /\ UNCHANGED location
  /\ UNCHANGED formFrame

FormNext ==
  \/ SubmitForm
  \/ TaskCreated
  \/ TaskRejected

SpecForm == FormInit /\ [][FormNext]_vars

\* ------------------------------------------------ options of the form
\* addonFamilies of the plan in the catalog: exclusive is the family's
\* marking, "absent" for a family that carries none
addonFamilies ==
  << [name |-> "memory", exclusive |-> "true"],
     [name |-> "storage", exclusive |-> "false"],
     [name |-> "bandwidth", exclusive |-> "absent"] >>

FormFamilies == {addonFamilies[i].name : i \in 1..Len(addonFamilies)}

\* the option codes offered for a family
FormOptionCodes(family) == {<<family, "a">>, <<family, "b">>}

\* findServerDetails(form.watch('planCode')) finds the plan
selectedServerFound ==
  form.catalogLoaded /\ form.values.planCode = server.planCode

\* isOptionSelected(family, optionCode)
isOptionSelected(family, optionCode) ==
  \E i \in 1..Len(form.selectedOptions) :
    /\ form.selectedOptions[i].family = family
    /\ form.selectedOptions[i].option = optionCode

\* selectedServer?.addonFamilies?.find(f => f.name === family)?.exclusive,
\* taken as a condition
isExclusive(family) ==
  /\ selectedServerFound
  /\ \E i \in 1..Len(addonFamilies) :
       addonFamilies[i].name = family /\ addonFamilies[i].exclusive = "true"

\* toggleOption(family, optionCode, checked): the new value of selectedOptions
toggleOption(family, optionCode, checked) ==
  IF checked
  THEN LET newOptions ==
             IF isExclusive(family)
             THEN SelectSeq(form.selectedOptions,
                            LAMBDA opt : opt.family # family)
             ELSE form.selectedOptions
       IN Append(newOptions, [family |-> family, option |-> optionCode])
  ELSE SelectSeq(form.selectedOptions,
                 LAMBDA opt : ~(opt.family = family /\ opt.option = optionCode))

\* a valid form for the plan, with no option selected; the catalog has
\* arrived or not
OptionsInit ==
  /\ form \in [ status : {"editing"},
                 values : {[ name |-> "task", planCode |-> server.planCode,
                             datacenter |-> DATACENTERS[1],
                             quantity |-> Number(1), maxRetries |-> Number(-1),
                             taskInterval |-> Number(60) ]},
                 selectedOptions : {<< >>}, errors : {{}}, calls : {<< >>},
                 catalogLoaded : BOOLEAN ]
  /\ location = "new-task"
  /\ planCode = server.planCode
  /\ selected = InitialSelected
  /\ displayed = InitialDisplayed
  /\ configConfirmed = FALSE
  /\ configChanged = FALSE
  /\ selectedDatacenters = << >>
  /\ savedConfig = NoItem
  /\ isChecking = FALSE
  /\ isAddingToQueue = FALSE
  /\ checks = EmptyBag
  /\ run = NoRun
  /\ isChecked = FALSE
  /\ serverAvailability = NoAvailability
  /\ toasts = << >>
  /\ console = Silent
  /\ lastCheck = NoCheck
  /\ lookup = NoLookup

\* the check box of an option is clicked: toggleOption is called with the
\* opposite of what isOptionSelected tells for the option.  The exploration
\* lets the user choose the options before the form is submitted for the
\* first time.
ToggleOption ==
  /\ location = "new-task"
  /\ form.status = "editing"
  /\ \E family \in FormFamilies :
       \E code \in FormOptionCodes(family) :
         form' = [form EXCEPT !.selectedOptions =
                    toggleOption(family, code, ~isOptionSelected(family, code))]
  /\ toasts' = << >>
  /\ console' = Silent
  /\ UNCHANGED location
  /\ UNCHANGED formFrame

OptionsNext ==
  \/ ToggleOption
  \/ SubmitForm
  \/ TaskCreated
  \/ TaskRejected

SpecOptions == OptionsInit /\ [][OptionsNext]_vars

\* ------------------------------------------------- availability lookup
\* A string is the sequence of its characters.
UpperCase == <<"A", "B", "C", "D", "E", "F", "G", "H", "I", "J", "K", "L", "M", "N", "O", "P", "Q", "R", "S", "T", "U", "V", "W", "X", "Y", "Z">>
LowerCase == <<"a", "b", "c", "d", "e", "f", "g", "h", "i", "j", "k", "l", "m", "n", "o", "p", "q", "r", "s", "t", "u", "v", "w", "x", "y", "z">>
Digits == <<"0", "1", "2", "3", "4", "5", "6", "7", "8", "9">>

\* String.prototype.toLowerCase
toLowerCase(s) ==
  [i \in 1..Len(s) |->
     IF \E k \in 1..Len(UpperCase) : UpperCase[k] = s[i]
     THEN LowerCase[CHOOSE k \in 1..Len(UpperCase) : UpperCase[k] = s[i]]
     ELSE s[i]]

\* String.prototype.includes, for a search string that is not empty
includes(s, searchString) ==
  \E i \in 1..(Len(s) - Len(searchString) + 1) :
    SubSeq(s, i, i + Len(searchString) - 1) = searchString

\* \d
IsDigit(c) == \E k \in 1..Len(Digits) : Digits[k] = c

\* the end of the run of digits that holds position i
DigitRunEnd(s, i) ==
  CHOOSE j \in i..Len(s) :
    /\ \A k \in i..j : IsDigit(s[k])
    /\ (j = Len(s) \/ ~IsDigit(s[j + 1]))

\* regexp.exec(s)[1] for the regular expression (\d+) followed by one of the
\* letters: the digits of the leftmost match, or the empty sequence for no
\* match (null)
execDigitsThen(letters, s) ==
  LET starts == {i \in 1..Len(s) :
                   /\ IsDigit(s[i])
                   /\ DigitRunEnd(s, i) < Len(s)
                   /\ s[DigitRunEnd(s, i) + 1] \in letters}
  IN IF starts = {} THEN << >>
     ELSE LET i == CHOOSE m \in starts : \A n \in starts : m <= n
          IN SubSeq(s, i, DigitRunEnd(s, i))

RECURSIVE parseInt(_)
\* parseInt of a sequence of digits
parseInt(digits) ==
  IF digits = << >> THEN 0
  ELSE 10 * parseInt(SubSeq(digits, 1, Len(digits) - 1))
       + (CHOOSE k \in 1..Len(Digits) : Digits[k] = digits[Len(digits)]) - 1

\* the status words of the provider and of the card
StrUnknown == <<"u", "n", "k", "n", "o", "w", "n">>
StrUnavailable == <<"u", "n", "a", "v", "a", "i", "l", "a", "b", "l", "e">>
StrOut == <<"o", "u", "t">>
StrNone == <<"n", "o", "n", "e">>
StrHigh == <<"h", "i", "g", "h">>
StrLow == <<"l", "o", "w">>
StrAvailable == <<"a", "v", "a", "i", "l", "a", "b", "l", "e">>

\* a label of the card: one of its fixed texts, possibly with the hours put
\* in, or the raw status (template "raw", the status as text)
Label(template, text) == [template |-> template, text |-> text]

\* the result of getAvailabilityInfo
Info(availability, icon, label) ==
  [availability |-> availability, icon |-> icon, label |-> label]

\* variant of hoursInfo: a delay of up to 24 hours counts as available
hoursInfo_availableWithinDay(hours, hasLowStock) ==
  IF parseInt(hours) <= 1
  THEN Info("available", "CheckCircle",
            Label(IF hasLowStock THEN "withinHoursLimited"
                  ELSE "withinHoursUsable", hours))
  ELSE IF parseInt(hours) <= 24
  THEN Info("available", "CheckCircle", Label("withinHours", hours))
  ELSE Info("soon", "AlertCircle", Label("withinHours", hours))

\* getAvailabilityInfo for a status with an hour count (the branch if (hours))
hoursInfo(hours, hasLowStock) ==
  IF parseInt(hours) <= 1
  THEN Info("available", "CheckCircle",
            Label(IF hasLowStock THEN "withinHoursLimited"
                  ELSE "withinHoursUsable", hours))
  ELSE IF parseInt(hours) <= 24
  THEN Info("soon", "AlertCircle", Label("withinHours", hours))
  ELSE Info("soon", "AlertCircle", Label("withinHours", hours))

\* variant of statusInfo: a status no rule recognises is taken as unavailable
statusInfo_failClosed(availability) ==
  IF availability = StrUnavailable
  THEN Info("unavailable", "XCircle", Label("outOfStock", << >>))
  ELSE IF \/ includes(availability, StrUnavailable)
          \/ includes(availability, StrOut)
          \/ includes(availability, StrNone)
  THEN Info("unavailable", "XCircle", Label("outOfStock", << >>))
  ELSE
    LET first == execDigitsThen({"h", "H"}, availability)
        hours == IF first # << >> THEN first
                 ELSE execDigitsThen({"H"}, availability)
        hasHighStock == includes(toLowerCase(availability), StrHigh)
        hasLowStock == includes(toLowerCase(availability), StrLow)
    IN IF hours # << >> THEN hoursInfo(hours, hasLowStock)
       ELSE IF hasHighStock
       THEN Info("available", "CheckCircle", Label("ampleStock", << >>))
       ELSE IF hasLowStock
       THEN Info("soon", "AlertCircle", Label("limitedStock", << >>))
       ELSE IF availability = StrAvailable
       THEN Info("available", "CheckCircle", Label("inStock", << >>))
       ELSE Info("unavailable", "XCircle", Label("outOfStock", << >>))

\* variant of statusInfo: the keyword low is looked at before the keyword high
statusInfo_lowBeforeHigh(availability) ==
  IF availability = StrUnavailable
  THEN Info("unavailable", "XCircle", Label("outOfStock", << >>))
  ELSE IF \/ includes(availability, StrUnavailable)
          \/ includes(availability, StrOut)
          \/ includes(availability, StrNone)
  THEN Info("unavailable", "XCircle", Label("outOfStock", << >>))
  ELSE
    LET first == execDigitsThen({"h", "H"}, availability)
        hours == IF first # << >> THEN first
                 ELSE execDigitsThen({"H"}, availability)
        hasHighStock == includes(toLowerCase(availability), StrHigh)
        hasLowStock == includes(toLowerCase(availability), StrLow)
    IN IF hours # << >> THEN hoursInfo(hours, hasLowStock)
       ELSE IF hasLowStock
       THEN Info("soon", "AlertCircle", Label("limitedStock", << >>))
       ELSE IF hasHighStock
       THEN Info("available", "CheckCircle", Label("ampleStock", << >>))
       ELSE IF availability = StrAvailable
       THEN Info("available", "CheckCircle", Label("inStock", << >>))
       ELSE Info("available", "CheckCircle", Label("raw", availability))

\* getAvailabilityInfo for a status that is present and is not "unknown"
statusInfo(availability) ==
  IF availability = StrUnavailable
  THEN Info("unavailable", "XCircle", Label("outOfStock", << >>))
  ELSE IF \/ includes(availability, StrUnavailable)
          \/ includes(availability, StrOut)
          \/ includes(availability, StrNone)
  THEN Info("unavailable", "XCircle", Label("outOfStock", << >>))
  ELSE
    LET first == execDigitsThen({"h", "H"}, availability)
        hours == IF first # << >> THEN first
                 ELSE execDigitsThen({"H"}, availability)
        hasHighStock == includes(toLowerCase(availability), StrHigh)
        hasLowStock == includes(toLowerCase(availability), StrLow)
    IN IF hours # << >> THEN hoursInfo(hours, hasLowStock)
       ELSE IF hasHighStock
       THEN Info("available", "CheckCircle", Label("ampleStock", << >>))
       ELSE IF hasLowStock
       THEN Info("soon", "AlertCircle", Label("limitedStock", << >>))
       ELSE IF availability = StrAvailable
       THEN Info("available", "CheckCircle", Label("inStock", << >>))
       ELSE Info("available", "CheckCircle", Label("raw", availability))

\* variant of getAvailabilityInfo: the status "unknown" is not singled out
getAvailabilityInfo_unknownIsAStatus(plan, datacenterId) ==
  LET dcIdLowerCase == toLowerCase(datacenterId)
  IN IF ~plan.present
     THEN Info("unknown", "Clock", Label("notChecked", << >>))
     ELSE IF dcIdLowerCase \notin DOMAIN plan.map
     THEN Info("unknown", "Clock", Label("unknown", << >>))
     ELSE IF plan.map[dcIdLowerCase] = << >>
     THEN Info("unknown", "Clock", Label("unknown", << >>))
     ELSE statusInfo(plan.map[dcIdLowerCase])

\* variant of getAvailabilityInfo: the identifier is looked up as it is given
getAvailabilityInfo_exactId(plan, datacenterId) ==
  IF ~plan.present
  THEN Info("unknown", "Clock", Label("notChecked", << >>))
  ELSE IF datacenterId \notin DOMAIN plan.map
  THEN Info("unknown", "Clock", Label("unknown", << >>))
  ELSE IF plan.map[datacenterId] = << >> \/ plan.map[datacenterId] = StrUnknown
  THEN Info("unknown", "Clock", Label("unknown", << >>))
  ELSE statusInfo(plan.map[datacenterId])

\* getAvailabilityInfo(datacenterId), for plan = the entry of
\* datacenterAvailability for server.planCode (present is false for no entry)
getAvailabilityInfo(plan, datacenterId) ==
  LET dcIdLowerCase == toLowerCase(datacenterId)
  IN IF ~plan.present
     THEN Info("unknown", "Clock", Label("notChecked", << >>))
     ELSE IF dcIdLowerCase \notin DOMAIN plan.map
     THEN Info("unknown", "Clock", Label("unknown", << >>))
     ELSE IF \/ plan.map[dcIdLowerCase] = << >>
             \/ plan.map[dcIdLowerCase] = StrUnknown
     THEN Info("unknown", "Clock", Label("unknown", << >>))
     ELSE statusInfo(plan.map[dcIdLowerCase])

\* the longest status drawn, counted in words
MaxTokens == 2

\* the words the drawn statuses are made of
Tokens ==
  { StrUnavailable, StrOut, StrNone, <<"O", "U", "T">>, StrHigh, StrLow,
    <<"L", "O", "W">>, StrAvailable, StrUnknown,
    <<"0">>, <<"1">>, <<"2">>, <<"2", "4">>, <<"2", "5">>, <<"7", "2">>,
    <<"h">>, <<"H">>, <<"-">>, <<"x">> }

RECURSIVE Concats(_)
\* the strings made of at most n words
Concats(n) ==
  IF n = 0 THEN {<< >>}
  ELSE Concats(n - 1) \cup {s \o w : s \in Concats(n - 1), w \in Tokens}

RawStatuses == Concats(MaxTokens)

\* keys of a plan's availability map, and identifiers asked for
MapKeys == {<<"g", "r", "a">>, <<"G", "R", "A">>, <<"b", "h", "s">>}
DatacenterIds == {<<"g", "r", "a">>, <<"G", "R", "A">>}

\* what datacenterAvailability can hold for the plan: no entry, or a map with
\* one datacenter in it
PlanEntries ==
  {[present |-> FALSE, map |-> << >>]}
  \cup {[present |-> TRUE, map |-> [k \in {key} |-> raw]] :
          key \in MapKeys, raw \in RawStatuses}

NoInfo == Info("none", "none", Label("none", << >>))

LogAvailability == "log:availabilityOfDatacenter"
LogAvailabilityStatus == "log:availabilityStatus"

LookupInit ==
  /\ lookup \in [ status : {"asked"}, plan : PlanEntries,
                   datacenterId : DatacenterIds, info : {NoInfo} ]
  /\ location = "servers"
  /\ planCode = server.planCode
  /\ selected = InitialSelected
  /\ displayed = InitialDisplayed
  /\ configConfirmed = FALSE
  /\ configChanged = FALSE
  /\ selectedDatacenters = << >>
  /\ savedConfig = NoItem
  /\ isChecking = FALSE
  /\ isAddingToQueue = FALSE
  /\ checks = EmptyBag
  /\ run = NoRun
  /\ isChecked = FALSE
  /\ serverAvailability = NoAvailability
  /\ toasts = << >>
  /\ console = Silent
  /\ lastCheck = NoCheck
  /\ form = NoForm

\* getAvailabilityInfo is called for a datacenter tile
ResolveAvailability ==
  /\ lookup.status = "asked"
  /\ lookup' = [lookup EXCEPT
                  !.status = "resolved",
                  !.info = getAvailabilityInfo(lookup.plan, lookup.datacenterId)]
  /\ console' = IF lookup.plan.present THEN LogAvailabilityStatus
                ELSE LogAvailability
  /\ UNCHANGED << selected, displayed, configChanged, configConfirmed,
                  isChecking, isAddingToQueue, selectedDatacenters, savedConfig,
                  checks, run, isChecked, serverAvailability, location, toasts,
                  lastCheck, planCode, form >>

LookupNext == ResolveAvailability

SpecLookup == LookupInit /\ [][LookupNext]_vars

\* ------------------------------------------- statuses with a stock level
\* getAvailabilityInfo applied to the statuses made of an hour count and of
\* stock-level words, in either order.
\* hour counts as the provider writes them, and none
HourParts ==
  { <<>>,
    <<"0", "H">>,
    <<"1", "H">>,
    <<"1", "h">>,
    <<"2", "H">>,
    <<"2", "4", "H">>,
    <<"2", "4", "h">>,
    <<"2", "5", "H">>,
    <<"7", "2", "H">> }

\* stock-level words in several letter cases, and none
StockWords ==
  { <<>>,
    <<"h", "i", "g", "h">>,
    <<"H", "I", "G", "H">>,
    <<"H", "i", "g", "h">>,
    <<"l", "o", "w">>,
    <<"L", "O", "W">>,
    <<"L", "o", "w">>,
    <<"h", "i", "g", "h", "-", "l", "o", "w">>,
    <<"L", "O", "W", "-", "H", "I", "G", "H">>,
    <<"s", "t", "o", "c", "k">> }

\* an hour count and a stock-level word, joined with or without a dash
StockStatuses ==
  {h \o sep \o w : h \in HourParts, sep \in {<< >>, <<"-">>}, w \in StockWords}
  \cup {w \o sep \o h : h \in HourParts, sep \in {<< >>, <<"-">>},
                          w \in StockWords}

\* datacenterAvailability holds one of these statuses for datacenter gra
StockEntries ==
  {[present |-> TRUE, map |-> [k \in {<<"g", "r", "a">>} |-> raw]] :
     raw \in StockStatuses}

StockInit ==
  /\ lookup \in [ status : {"asked"}, plan : StockEntries,
                   datacenterId : DatacenterIds, info : {NoInfo} ]
  /\ location = "servers"
  /\ planCode = server.planCode
  /\ selected = InitialSelected
  /\ displayed = InitialDisplayed
  /\ configConfirmed = FALSE
  /\ configChanged = FALSE
  /\ selectedDatacenters = << >>
  /\ savedConfig = NoItem
  /\ isChecking = FALSE
  /\ isAddingToQueue = FALSE
  /\ checks = EmptyBag
  /\ run = NoRun
  /\ isChecked = FALSE
  /\ serverAvailability = NoAvailability
  /\ toasts = << >>
  /\ console = Silent
  /\ lastCheck = NoCheck
  /\ form = NoForm

StockNext == ResolveAvailability

SpecStock == StockInit /\ [][StockNext]_vars

\* ------------------------------------------------- the datacenter grid
\* The grid of a card whose parent page holds any availability for the plan:
\* every tile shows the availability getAvailabilityInfo resolves for it.
\* raw statuses the parent page holds for a datacenter (Null: no entry)
GridStatuses == {Null, "unknown", "unavailable", "available"}

\* what the parent page holds for the plan when the card is mounted
GridAnswers ==
  {[present |-> TRUE, map |-> m] : m \in [DatacenterSet -> GridStatuses]}

\* the characters of a datacenter code and of a raw status
CodeChars(dc) ==
  IF dc = "gra" THEN <<"g", "r", "a">> ELSE <<"b", "h", "s">>

StatusChars(raw) ==
  IF raw = "unknown" THEN StrUnknown
  ELSE IF raw = "unavailable" THEN StrUnavailable
  ELSE StrAvailable

\* datacenterAvailability[server.planCode], keyed by the characters of the
\* codes that have an entry
PlanOf(availability) ==
  LET held == {dc \in DatacenterSet : availability.map[dc] # Null}
  IN [present |-> availability.present,
      map |-> [k \in {CodeChars(dc) : dc \in held} |->
                 StatusChars(availability.map[
                   CHOOSE dc \in held : CodeChars(dc) = k])]]

\* availInfo of the tile of datacenter dc
TileInfo(dc) == getAvailabilityInfo(PlanOf(serverAvailability), CodeChars(dc))

\* variant of ClickDatacenterTile: only the tiles of datacenters resolved as
\* available or soon available react to a click
ClickDatacenterTile_availableOnly ==
  \E dc \in DatacenterSet :
    /\ TileInfo(dc).availability \in {"available", "soon"}
    /\ ClickTile(dc)

\* click on a tile of the grid: each tile carries the same onClick
ClickDatacenterTile == \E dc \in DatacenterSet : ClickTile(dc)

\* a card is mounted while the parent page holds an answer for the plan, or
\* none
GridInit ==
  /\ savedConfig \in InitialItems
  /\ selected = Mounted(savedConfig).selected
  /\ displayed = Mounted(savedConfig).displayed
  /\ configConfirmed = Mounted(savedConfig).configConfirmed
  /\ configChanged = Mounted(savedConfig).configChanged
  /\ isChecking = FALSE
  /\ isAddingToQueue = FALSE
  /\ selectedDatacenters = << >>
  /\ checks = EmptyBag
  /\ run = NoRun
  /\ \/ isChecked = FALSE /\ serverAvailability = NoAvailability
     \/ isChecked = TRUE /\ serverAvailability \in GridAnswers
  /\ location = "servers"
  /\ toasts = << >>
  /\ console = MountLog(savedConfig)
  /\ lastCheck = NoCheck
  /\ planCode = server.planCode
  /\ form = NoForm
  /\ lookup = NoLookup

GridNext ==
  \/ ClickDatacenterTile
  \/ ClearDatacenters
  \/ ClickAddToQueue
  \/ CreateTaskSucceeds
  \/ CreateTaskFails

SpecGrid == GridInit /\ [][GridNext]_vars


\* ----------------------------------------------------------------- claims
\* the selection the plan starts with when nothing is saved
BaselineSelected == Mounted(NoItem).selected

\* the option set an availability check stands for: the options it sent, or
\* the plan's baseline configuration for a check that sent none
CheckedOptions(check) ==
  IF check.kind = "default" THEN getSelectedOptions(BaselineSelected)
  ELSE check.options

\* C1: whenever the card is confirmed and no check is in flight, the latest
\* availability check the user triggered on this card used exactly the
\* current selections as its option set.
C1_ConfirmedImpliesLastCheckUsedSelections ==
  (cardMounted /\ configConfirmed /\ lastCheck.kind # "none" /\ checks = EmptyBag)
    => CheckedOptions(lastCheck) = getSelectedOptions(selected)

C3_SubmitOnlyWhenConfirmedAndSelected ==
  [][(run'.active /\ run'.index # run.index) =>
       /\ configConfirmed /\ configConfirmed'
       /\ Len(run'.datacenters) > 0
       /\ (~run.active =>
             /\ run'.datacenters = selectedDatacenters
             /\ Len(selectedDatacenters) > 0
             /\ ~isAddingToQueue)]_vars

\* C3 witness: a run over two datacenters has issued its second call.
C3_Witness ==
  /\ run.active /\ run.index = 2
  /\ configConfirmed
  /\ console = LogSendConfig

\* C4: when a run ends, by success or by a rejected call, a createTask call
\* has been issued for every datacenter of its list.
C4_FailureDoesNotAbortRemaining ==
  [][(run.active /\ ~run'.active /\ toasts' # << >>) =>
       run.index = Len(run.datacenters)]_vars

\* C5: the step in which a configuration check is rejected changes neither
\* the confirmed flag nor the modified flag nor the persisted snapshot.
C5_FailedCheckKeepsState ==
  [][toasts' = <<ToastCheckFailed>> =>
       /\ configConfirmed' = configConfirmed
       /\ configChanged' = configChanged
       /\ savedConfig' = savedConfig]_vars

\* C5 witness: a configuration check of a modified, unconfirmed card with
\* nothing persisted was just rejected.
C5_Witness ==
  /\ toasts = <<ToastCheckFailed>>
  /\ configChanged /\ ~configConfirmed
  /\ savedConfig = NoItem

\* C6: every rejected availability check, of either handler, emits a toast.
C6_RejectedCheckIsNotified ==
  [][console' \in {ErrCheckConfigFailed, ErrCheckFailed} => toasts' # << >>]_vars

\* C7: at most one availability check is in flight.
C7_AtMostOneCheckInFlight == BagCardinality(checks) <= 1

\* C8: when a configuration check resolves on the mounted card, the snapshot
\* it persists holds the selections that are current in the confirmed state.
C8_SnapshotEqualsCurrentSelections ==
  [][(toasts' = <<ToastConfigConfirmed>> /\ cardMounted) =>
       \A f \in FamilySet :
         JSONhas(savedConfig', f) /\ JSONmember(savedConfig', f).code = selected'[f]]_vars

\* C9: a configuration check that resolves on a modified card leaves the card
\* confirmed and not modified, and a fresh card initialised from the item it
\* persisted selects, per family, the code that check confirmed.
C9_ConfirmThenLoadRoundTrip ==
  [][(toasts' = <<ToastConfigConfirmed>> /\ cardMounted /\ configChanged) =>
       /\ configConfirmed' /\ ~configChanged'
       /\ \E c \in BagToSet(checks) :
            /\ c.kind = "config"
            /\ checks' = checks (-) SetToBag({c})
            /\ Mounted(savedConfig').selected = c.selected
            /\ getSelectedOptions(Mounted(savedConfig').selected) = c.options]_vars

\* C9 witness: a check of the customised selection just resolved; the card is
\* confirmed and a reload would select the same codes.
C9_Witness ==
  /\ toasts = <<ToastConfigConfirmed>>
  /\ cardMounted
  /\ configConfirmed /\ ~configChanged
  /\ selected["memory"] = "ram-64"
  /\ Mounted(savedConfig).selected = selected

\* C10: right after a mount that restored a snapshot, the selection holds
\* exactly the snapshot's codes, the card is confirmed and not modified.
C10_RestoreSetsConfirmedNotModified ==
  console = LogRestored =>
    /\ \A f \in FamilySet :
         JSONhas(savedConfig, f) /\ selected[f] = JSONmember(savedConfig, f).code
    /\ configConfirmed
    /\ ~configChanged

\* C10 witness: after an availability check, a card was mounted anew and
\* restored from a snapshot of a customised selection.
C10_Witness ==
  /\ console = LogRestored
  /\ isChecked
  /\ selected["memory"] = "ram-64"
  /\ configConfirmed /\ ~configChanged

\* the calls of the submission in flight are the first calls of the expected
\* series: call i is for the i-th datacenter of the captured list, is named
\* after the plan and that datacenter, carries the plan's planCode, and all
\* calls carry the options and the retry policy of the first one
C11_CallsFollowTheList ==
  run.active =>
    /\ Len(run.calls) = run.index
    /\ run.index <= Len(run.datacenters)
    /\ \A i \in 1..Len(run.calls) :
         /\ run.calls[i].name = <<server.name, run.datacenters[i]>>
         /\ run.calls[i].datacenter = run.datacenters[i]
         /\ run.calls[i].planCode = server.planCode
         /\ run.calls[i].options = run.calls[1].options
         /\ run.calls[i].maxRetries = run.calls[1].maxRetries
         /\ run.calls[i].taskInterval = run.calls[1].taskInterval

\* C11: a submission over the datacenter list d1..dn in which every createTask
\* call succeeds has issued exactly n calls when it reports success, one per
\* datacenter in the order of the list; call i is named after the plan and di,
\* is for datacenter di and the plan's planCode, and all calls carry the same
\* options and the same retry policy.
C11_OneTaskPerDatacenterInOrder ==
  /\ []C11_CallsFollowTheList
  /\ [][ /\ (run'.active /\ ~run.active =>
               /\ run'.datacenters = selectedDatacenters
               /\ run'.calls[1].options = getSelectedOptions(selected))
          /\ (toasts' = <<ToastAddSucceeded>> =>
               /\ run.active
               /\ Len(run.calls) = Len(run.datacenters)) ]_vars

\* a submission over two datacenters whose two calls have been issued, the
\* first of them answered with success
C11_Witness ==
  /\ run.active
  /\ Len(run.datacenters) = 2
  /\ Len(run.calls) = 2
  /\ run.calls[1].datacenter # run.calls[2].datacenter
  /\ run.calls[2].options # << >>

\* C12: handleAddToQueue called with an empty datacenter selection emits the
\* "no datacenter selected" error toast and nothing else happens: no
\* submission is started, no serverConfig object is built and no createTask
\* call is issued.
C12_EmptySelectionIsRefused ==
  [][ ( /\ ~run.active
        /\ Len(selectedDatacenters) = 0
        /\ toasts' \in {<<ToastNoDatacenter>>, <<ToastAdding>>} )
      => /\ toasts' = <<ToastNoDatacenter>>
         /\ run' = NoRun
         /\ isAddingToQueue' = FALSE
         /\ location' = location ]_vars

\* the handler has refused an empty selection on a confirmed card
C12_Witness ==
  /\ toasts = <<ToastNoDatacenter>>
  /\ Len(selectedDatacenters) = 0
  /\ configConfirmed
  /\ ~run.active

\* C13: once the form has been validated, maxRetries and taskInterval are both
\* free of error exactly when maxRetries is an integer in [-1, 100] and
\* taskInterval is an integer in [5, 600]; -2, 101, 4 and 601 are refused, -1
\* and 5 are accepted, and the values of a task passed to createTask are the
\* values entered, never values moved into range.
C13_RetryPolicyValidation ==
  form.status \notin {"closed", "editing"} =>
    LET maxAttempts == form.values.maxRetries
        intervalSeconds == form.values.taskInterval
        validated == form.status # "invalid"
        maxAttemptsOk == IF validated THEN TRUE
                         ELSE "maxRetries" \notin form.errors
        intervalOk == IF validated THEN TRUE
                      ELSE "taskInterval" \notin form.errors
    IN /\ maxAttemptsOk <=> maxAttempts \in {Number(k) : k \in -1..100}
       /\ intervalOk <=> intervalSeconds \in {Number(k) : k \in 5..600}
       /\ maxAttempts \in {Number(-2), Number(101)} => ~maxAttemptsOk
       /\ intervalSeconds \in {Number(4), Number(601)} => ~intervalOk
       /\ maxAttempts = Number(-1) => maxAttemptsOk
       /\ intervalSeconds = Number(5) => intervalOk
       /\ \A i \in 1..Len(form.calls) :
            /\ form.calls[i].maxRetries = maxAttempts
            /\ form.calls[i].taskInterval = intervalSeconds

\* a form entered with maxRetries -1 and taskInterval 5 has passed validation
\* and its task carries these two values
C13_Witness ==
  /\ form.status = "pending"
  /\ form.values.maxRetries = Number(-1)
  /\ form.values.taskInterval = Number(5)
  /\ Len(form.calls) = 1
  /\ form.calls[1].maxRetries = Number(-1)
  /\ form.calls[1].taskInterval = Number(5)

\* the tasks passed to createTask so far by the submission of the card and by
\* the form
TasksPassed ==
  {run.calls[i] : i \in 1..Len(run.calls)}
  \cup {form.calls[i] : i \in 1..Len(form.calls)}

\* C14: every task passed to createTask, by the card's submission or by the
\* add-task form, has maxRetries in [-1, 100], taskInterval in [5, 600],
\* quantity in [1, 5] and a planCode that is not empty.
C14_TasksWithinLimits ==
  \A task \in TasksPassed :
    /\ task.maxRetries \in {Number(k) : k \in -1..100}
    /\ task.taskInterval \in {Number(k) : k \in 5..600}
    /\ task.quantity \in {Number(k) : k \in 1..5}
    /\ task.planCode # ""

\* the lookup has been answered and the plan's map holds an entry under the
\* lower-cased identifier
EntryResolved ==
  /\ lookup.status = "resolved"
  /\ lookup.plan.present
  /\ toLowerCase(lookup.datacenterId) \in DOMAIN lookup.plan.map

\* the raw status of that entry
RawStatus == lookup.plan.map[toLowerCase(lookup.datacenterId)]

\* the status holds "unavailable", "out" or "none" in some letter case
HasNegativeKeyword(raw) ==
  \E keyword \in {StrUnavailable, StrOut, StrNone} :
    includes(toLowerCase(raw), keyword)

\* the status holds a digit immediately followed by h or H
HasHourCount(raw) ==
  \E i \in 1..(Len(raw) - 1) : IsDigit(raw[i]) /\ raw[i + 1] \in {"h", "H"}

\* the status is digits followed by h or H and nothing else
IsHourForm(raw) ==
  /\ Len(raw) >= 2
  /\ raw[Len(raw)] \in {"h", "H"}
  /\ \A i \in 1..(Len(raw) - 1) : IsDigit(raw[i])

\* the hour count n of a status of the form <n>H
HourCount(raw) == parseInt(SubSeq(raw, 1, Len(raw) - 1))

\* C15: a raw status that holds "unavailable", "out" or "none" in any letter
\* case is resolved to unavailable, whatever else the status holds.
C15_NegativeKeywordMeansUnavailable ==
  (EntryResolved /\ HasNegativeKeyword(RawStatus))
    => lookup.info.availability = "unavailable"

\* C16: a raw status of the form <n>H is resolved to available when n <= 24
\* and to soon available when n > 24.
C16_HoursUpTo24Available ==
  (EntryResolved /\ IsHourForm(RawStatus))
    => lookup.info.availability =
         IF HourCount(RawStatus) <= 24 THEN "available" ELSE "soon"

\* C16 (amended): a raw status of the form <n>H is resolved to available when
\* n <= 1 and to soon available when n > 1.
C16_HoursUpTo1Available ==
  (EntryResolved /\ IsHourForm(RawStatus))
    => lookup.info.availability =
         IF HourCount(RawStatus) <= 1 THEN "available" ELSE "soon"

\* the status 24H has been resolved, to soon available
C16_Witness ==
  /\ EntryResolved
  /\ RawStatus = <<"2", "4", "H">>
  /\ lookup.info.availability = "soon"

\* C17: every lookup has a result, one of the four availabilities, and it is
\* unknown when the plan has no map, when the map has no entry for the
\* datacenter and when the entry is "unknown".
C17_ResolverIsTotal ==
  lookup.status = "resolved" =>
    /\ lookup.info.availability \in {"unknown", "unavailable", "available", "soon"}
    /\ ~lookup.plan.present => lookup.info.availability = "unknown"
    /\ (lookup.plan.present /\ ~EntryResolved)
         => lookup.info.availability = "unknown"
    /\ (EntryResolved /\ RawStatus = StrUnknown)
         => lookup.info.availability = "unknown"

\* the entry "unknown" has been resolved, to unknown
C17_Witness ==
  /\ EntryResolved
  /\ RawStatus = StrUnknown
  /\ lookup.info.availability = "unknown"

Classifiable(raw) == raw # << >> /\ raw # StrUnknown

\* C19: when the plan's map holds a status under a key equal to the requested
\* identifier up to letter case, the result is the classification of that
\* status, not unknown.
C19_KeyMatchedUpToCase ==
  (lookup.status = "resolved" /\ lookup.plan.present) =>
    \A key \in DOMAIN lookup.plan.map :
      ( /\ toLowerCase(key) = toLowerCase(lookup.datacenterId)
        /\ Classifiable(lookup.plan.map[key]) )
      => /\ lookup.info.availability # "unknown"
         /\ lookup.info = statusInfo(lookup.plan.map[key])

\* C19 (amended): the requested identifier is lower-cased and looked up as
\* such: a status held under the lower-cased identifier is classified, in
\* whatever case the identifier was given, and when the map has no such key
\* the result is unknown, even if it has a key equal up to letter case.
C19_LowerCasedIdIsLookedUp ==
  (lookup.status = "resolved" /\ lookup.plan.present) =>
    /\ \A key \in DOMAIN lookup.plan.map :
         ( /\ key = toLowerCase(lookup.datacenterId)
           /\ Classifiable(lookup.plan.map[key]) )
         => /\ lookup.info.availability # "unknown"
            /\ lookup.info = statusInfo(lookup.plan.map[key])
    /\ toLowerCase(lookup.datacenterId) \notin DOMAIN lookup.plan.map
         => lookup.info.availability = "unknown"

\* the identifier GRA has been looked up in a map with key gra, and the
\* status "available" found there has been classified
C19_Witness ==
  /\ lookup.status = "resolved"
  /\ lookup.plan.present
  /\ lookup.datacenterId = <<"G", "R", "A">>
  /\ DOMAIN lookup.plan.map = {<<"g", "r", "a">>}
  /\ lookup.plan.map[<<"g", "r", "a">>] = StrAvailable
  /\ lookup.info.availability = "available"

\* C20: a call of handleSelectOption with the code that is already selected
\* (as it is right after a call with the same code) reports no change, leaves
\* the selected codes, the displayed texts, the modified flag and the confirmed
\* flag as they were, and touches nothing else of the card.
C20_ReselectChangesNothing ==
  [][ ( /\ console' \in {LogOptionChanged, LogSameOption}
        /\ selected' = selected )
      => /\ console' = LogSameOption
         /\ getSelectedOptions(selected') = getSelectedOptions(selected)
         /\ displayed' = displayed
         /\ configChanged' = configChanged
         /\ configConfirmed' = configConfirmed
         /\ savedConfig' = savedConfig
         /\ selectedDatacenters' = selectedDatacenters
         /\ checks' = checks
         /\ toasts' = << >> ]_vars

\* the option ram-64 has been selected, a change, and then selected again on
\* a card that was confirmed before
C20_Witness ==
  /\ console = LogSameOption
  /\ selected["memory"] = "ram-64"
  /\ selected # BaselineSelected
  /\ configChanged
  /\ configConfirmed

\* C21: right after a successful default check on the mounted card, the card
\* is confirmed and its modified flag is not set.
C21_DefaultCheckLeavesConfirmedNotModified ==
  (location = "servers" /\ toasts = <<ToastDefaultConfirmed>>)
    => (configConfirmed /\ ~configChanged)

\* C22: the card is never marked confirmed and marked modified at once.
C22_NeverConfirmedAndModified ==
  ~(configConfirmed /\ configChanged)

\* C23: the step on which a submission fails leaves the confirmed flag, the
\* modified flag, the selected options and the datacenter selection as they
\* were.
C23_FailedSubmissionKeepsState ==
  [][ toasts' = <<ToastAddFailed>>
      => /\ configConfirmed' = configConfirmed
         /\ configChanged' = configChanged
         /\ selected' = selected
         /\ displayed' = displayed
         /\ selectedDatacenters' = selectedDatacenters
         /\ savedConfig' = savedConfig ]_vars

\* a submission over two datacenters has failed: the card is still confirmed
\* and both datacenters are still selected
C23_Witness ==
  /\ toasts = <<ToastAddFailed>>
  /\ ~run.active
  /\ configConfirmed
  /\ Len(selectedDatacenters) = 2

\* C24: every option entry of every task passed to createTask, by the card or
\* by the form, has the two fields family and option.
C24_OptionsHaveWireShape ==
  \A task \in TasksPassed :
    \A i \in 1..Len(task.options) :
      DOMAIN task.options[i] = {"family", "option"}

\* C25: the options of a submission are those selected when it started, and
\* as long as it is in flight the tasks already passed to createTask stay as
\* they are and every task carries those options, whatever is selected in
\* between.
C25_OptionsAreSnapshotOfStart ==
  [][ /\ (~run.active /\ run'.active)
          => /\ run'.options = getSelectedOptions(selected)
             /\ \A i \in 1..Len(run'.calls) :
                  run'.calls[i].options = getSelectedOptions(selected)
      /\ (run.active /\ run'.active)
          => /\ run'.options = run.options
             /\ Len(run'.calls) >= Len(run.calls)
             /\ SubSeq(run'.calls, 1, Len(run.calls)) = run.calls
             /\ \A i \in 1..Len(run'.calls) :
                  run'.calls[i].options = run.options ]_vars

\* two tasks of one submission have been passed to createTask with the same
\* options while other options are selected by now
C25_Witness ==
  /\ run.active
  /\ Len(run.calls) = 2
  /\ run.calls[2].options = run.calls[1].options
  /\ run.calls[2].options # getSelectedOptions(selected)

\* the last step was a real change of an option and it has brought the
\* selection back to the configuration that was confirmed and saved
RevertedToConfirmed ==
  /\ location = "servers"
  /\ console = LogOptionChanged
  /\ savedConfig = JSONstringify(selected, displayed)

C27_OneOptionPerExclusiveFamily ==
  form.status # "closed" =>
    \A i \in 1..Len(addonFamilies) :
      addonFamilies[i].exclusive # "false" =>
        Cardinality({k \in 1..Len(form.selectedOptions) :
                       form.selectedOptions[k].family = addonFamilies[i].name}) <= 1

\* the identifiers of a list, as a set
Members(list) == {list[i] : i \in 1..Len(list)}

\* C28: the datacenter selection never holds an identifier twice, and
\* toggling any identifier twice in a row from the current selection gives
\* the same set of identifiers again, with no identifier twice in between.
C28_DatacenterSelectionIsASet ==
  /\ Cardinality(Members(selectedDatacenters)) = Len(selectedDatacenters)
  /\ \A dc \in DatacenterSet :
       LET once == toggleDatacenter(selectedDatacenters, dc)
           twice == toggleDatacenter(once, dc)
       IN /\ Cardinality(Members(once)) = Len(once)
          /\ Members(once) # Members(selectedDatacenters)
          /\ Members(twice) = Members(selectedDatacenters)
          /\ Cardinality(Members(twice)) = Len(twice)

\* two datacenters are selected, and toggling the first of them twice gives
\* the same set in another order
C28_Witness ==
  /\ Len(selectedDatacenters) = 2
  /\ toggleDatacenter(toggleDatacenter(selectedDatacenters,
                                        selectedDatacenters[1]),
                       selectedDatacenters[1]) # selectedDatacenters

\* the step is a click of the user on a datacenter tile or on the clear
\* button: nothing but the datacenter selection changes
UserEditsDatacenters ==
  /\ toasts' = << >>
  /\ console' = Silent
  /\ \/ \E dc \in DatacenterSet :
          selectedDatacenters' = toggleDatacenter(selectedDatacenters, dc)
     \/ selectedDatacenters' = << >>
  /\ UNCHANGED << selected, displayed, configChanged, configConfirmed,
                  isChecking, isAddingToQueue, savedConfig, checks, run,
                  isChecked, serverAvailability, location, lastCheck >>

\* the step ends a submission all of whose createTask calls succeeded
SubmissionSucceeded ==
  /\ run.active
  /\ Len(run.calls) = Len(run.datacenters)
  /\ toasts' = <<ToastAddSucceeded>>

\* the step mounts a new card (the page is reloaded)
CardRemounted ==
  /\ location = "servers"
  /\ lastCheck' = NoCheck
  /\ run' = NoRun
  /\ checks' = EmptyBag
  /\ ~isChecking'
  /\ selected' = Mounted(savedConfig).selected
  /\ configConfirmed' = Mounted(savedConfig).configConfirmed
  /\ configChanged' = Mounted(savedConfig).configChanged
  /\ console' = MountLog(savedConfig)

\* C29: while the card stays mounted, the steps of select, of the two
\* confirmations (started, succeeded or failed) and of a failed submission
\* leave the datacenter selection unchanged; the selection changes only by a
\* click of the user on a tile or on the clear button, or by the end of a
\* submission in which every createTask succeeded, which empties it.
C29_DatacenterSelectionLifecycle ==
  [][ /\ selectedDatacenters' # selectedDatacenters
         => \/ UserEditsDatacenters
            \/ SubmissionSucceeded /\ selectedDatacenters' = << >>
            \/ CardRemounted
      /\ ( \/ console' \in {LogOptionChanged, LogSameOption, LogCheckingConfig,
                             ErrCheckConfigFailed, ErrCheckFailed,
                             ErrAddToQueueFailed}
           \/ toasts' \in {<<ToastConfigConfirmed>>, <<ToastCheckFailed>>,
                            <<ToastDefaultConfirmed>>, <<ToastAddFailed>>,
                            <<ToastAdding>>, <<ToastNoDatacenter>>} )
         => selectedDatacenters' = selectedDatacenters ]_vars

\* a submission has failed on a card that was confirmed and then modified:
\* datacenters are still selected
C29_Witness ==
  /\ toasts = <<ToastAddFailed>>
  /\ console = ErrAddToQueueFailed
  /\ configConfirmed
  /\ configChanged
  /\ Len(selectedDatacenters) >= 1

\* C30: on a mounted card the tile of every datacenter reacts to a click by
\* toggling that datacenter, whatever availability is resolved for it; and
\* on a confirmed card with datacenters selected, the add-to-queue button
\* starts a submission over the whole selection, the first task going to
\* its first datacenter, whatever availability is resolved for them.
C30_TilesReactWhateverTheAvailability ==
  /\ location = "servers"
       => \A dc \in DatacenterSet :
            ENABLED ( /\ ClickDatacenterTile
                      /\ selectedDatacenters'
                           = toggleDatacenter(selectedDatacenters, dc) )
  /\ ( /\ location = "servers"
       /\ configConfirmed
       /\ ~isAddingToQueue
       /\ Len(selectedDatacenters) > 0 )
       => ENABLED ( /\ ClickAddToQueue
                    /\ run'.datacenters = selectedDatacenters
                    /\ run'.calls[1].datacenter = selectedDatacenters[1] )
  /\ run.active
       => \A i \in 1..Len(run.calls) :
            run.calls[i].datacenter = run.datacenters[i]

\* a submission of a confirmed card has passed a task for a datacenter
\* resolved as unavailable and a task for a datacenter resolved as unknown
C30_Witness ==
  /\ run.active
  /\ configConfirmed
  /\ \E i \in 1..Len(run.calls) :
       /\ run.calls[i].datacenter \in Members(selectedDatacenters)
       /\ TileInfo(run.calls[i].datacenter).availability = "unavailable"
  /\ \E i \in 1..Len(run.calls) :
       /\ run.calls[i].datacenter \in Members(selectedDatacenters)
       /\ TileInfo(run.calls[i].datacenter).availability = "unknown"

\* a status the resolver takes as positive: it is not empty, is not "unknown"
\* and holds no negative keyword
PositiveStatus(raw) ==
  /\ raw # << >>
  /\ raw # StrUnknown
  /\ ~HasNegativeKeyword(raw)

\* the leftmost hour count of a status, written as <n>H
BareHourCount(raw) == execDigitsThen({"h", "H"}, raw) \o <<"H">>

\* C31: a positive status without an hour count is resolved to available
\* when it holds "high" in any letter case (also when it holds "low" too),
\* and otherwise to soon available when it holds "low" in any letter case;
\* a positive status with an hour count is resolved to the availability of
\* the hour count alone, whatever stock words it holds.
C31_StockKeywordPrecedence ==
  (EntryResolved /\ PositiveStatus(RawStatus)) =>
    LET hasHigh == includes(toLowerCase(RawStatus), StrHigh)
        hasLow == includes(toLowerCase(RawStatus), StrLow)
    IN /\ (~HasHourCount(RawStatus) /\ hasHigh)
            => lookup.info.availability = "available"
       /\ (~HasHourCount(RawStatus) /\ ~hasHigh /\ hasLow)
            => lookup.info.availability = "soon"
       /\ HasHourCount(RawStatus)
            => lookup.info.availability
                 = statusInfo(BareHourCount(RawStatus)).availability

\* the status LOW-HIGH has been resolved to available, with the label of
\* ample stock
C31_Witness ==
  /\ EntryResolved
  /\ RawStatus = <<"L", "O", "W", "-", "H", "I", "G", "H">>
  /\ lookup.info.availability = "available"
  /\ lookup.info.label = Label("ampleStock", << >>)

\* C32: a positive status with an hour count of at most 24 that holds "low"
\* in any letter case is resolved to a label that carries the hour count
\* together with the qualifier of limited stock.
C32_LowStockQualifierUpTo24 ==
  ( /\ EntryResolved
    /\ PositiveStatus(RawStatus)
    /\ HasHourCount(RawStatus)
    /\ parseInt(execDigitsThen({"h", "H"}, RawStatus)) <= 24
    /\ includes(toLowerCase(RawStatus), StrLow) )
  => lookup.info.label
       = Label("withinHoursLimited", execDigitsThen({"h", "H"}, RawStatus))

\* C33: a card that has just been mounted with a saved item that cannot be
\* parsed is on the servers page, is neither confirmed nor modified, and has
\* the selected codes and displayed texts of a card mounted with no saved
\* item: for every family the option that matches the plan's base
\* specification, when there is one.
C33_UnparseableSnapshotStartsDefault ==
  (savedConfig = Corrupt /\ console = ErrRestoreFailed)
    => /\ location = "servers"
       /\ ~configConfirmed
       /\ ~configChanged
       /\ selected = [f \in FamilySet |-> FindDefault(f)]
       /\ selected = Mounted(NoItem).selected
       /\ displayed = Mounted(NoItem).displayed
       /\ selectedDatacenters = << >>
       /\ ~isChecking
       /\ ~isAddingToQueue

\* the page has been reloaded over an item that cannot be parsed, after the
\* parent page stored an availability answer
C33_Witness ==
  /\ savedConfig = Corrupt
  /\ console = ErrRestoreFailed
  /\ isChecked
  /\ ~configConfirmed
  /\ selected = BaselineSelected

\* C34: while a submission run is in flight the in-flight flag is set, the
\* add-to-queue button is disabled and a click on it cannot start a run.
C34_OneRunInFlight ==
  run.active
    => /\ isAddingToQueue
       /\ ~QueueButtonEnabled
       /\ ~ENABLED ClickAddToQueue

\* a run is in flight on a confirmed card that has datacenters selected: only
\* the in-flight flag keeps the button disabled
C34_Witness ==
  /\ run.active
  /\ run.index = 2
  /\ location = "servers"
  /\ configConfirmed
  /\ Len(selectedDatacenters) > 0

\* C35: the step on which an availability check of the mounted card
\* resolves, by success or by rejection, ends with isChecking false; the
\* step on which a submission run ends, by success or by a rejected
\* createTask, ends with isAddingToQueue false; and so does the call of
\* handleAddToQueue that returns early on an empty datacenter selection.
C35_InFlightIndicatorsClear ==
  [][ /\ ( /\ location = "servers"
           /\ BagCardinality(checks') < BagCardinality(checks) )
         => ~isChecking'
      /\ (run.active /\ ~run'.active) => ~isAddingToQueue'
      /\ toasts' = <<ToastNoDatacenter>>
         => (~isAddingToQueue' /\ ~run'.active) ]_vars

\* the only check in flight has been rejected and the flag is clear
C35_Witness ==
  /\ location = "servers"
  /\ console = ErrCheckFailed
  /\ checks = EmptyBag
  /\ ~isChecking
  /\ ~isAddingToQueue

\* C36: a run in flight has one createTask call pending; a step that keeps
\* the run in flight either issues no call or issues the one call for the
\* next datacenter of the run's list, after the pending call succeeded.  The
\* success toast, the navigation to the queue page and the clearing of the
\* selection by the run happen together, on the step on which the call for
\* the last datacenter of the list succeeds; a failed run does none of them.
C36_CallsOneAfterAnother ==
  [][ /\ (run.active /\ run'.active)
         => \/ run' = run
            \/ /\ run'.index = run.index + 1
               /\ run'.index <= Len(run.datacenters)
               /\ run'.datacenters = run.datacenters
               /\ Len(run'.calls) = Len(run.calls) + 1
               /\ SubSeq(run'.calls, 1, Len(run.calls)) = run.calls
               /\ run'.calls[run'.index].datacenter
                    = run.datacenters[run.index + 1]
               /\ toasts' = << >>
      /\ ( \/ toasts' = <<ToastAddSucceeded>>
           \/ (location = "servers" /\ location' = "queue") )
         => /\ run.active
            /\ run.index = Len(run.datacenters)
            /\ \A i \in 1..Len(run.datacenters) :
                 run.calls[i].datacenter = run.datacenters[i]
            /\ toasts' = <<ToastAddSucceeded>>
            /\ selectedDatacenters' = << >>
            /\ location' = "queue"
            /\ ~run'.active
      /\ toasts' = <<ToastAddFailed>>
         => /\ location' = location
            /\ selectedDatacenters' = selectedDatacenters
            /\ ~run'.active ]_vars

\* the first call of a run over two datacenters has succeeded and the second
\* is pending: the card is still on the servers page with its selection
C36_Witness ==
  /\ run.active
  /\ run.index = 2
  /\ Len(run.datacenters) = 2
  /\ location = "servers"
  /\ selectedDatacenters = run.datacenters
  /\ toasts = << >>

\* C37: while the card shows a run whose call number k > 1 is pending (the
\* tasks of the first k - 1 datacenters of the run are created), the
\* rejection of that call leaves the datacenter selection as it is, the
\* created ones included; and when the selection is not empty, the
\* add-to-queue button can then be clicked at once and starts a run over
\* that same selection, whose first call is for its first datacenter.
C37_RetryResubmitsCreatedTasks ==
  (run.active /\ run.index > 1 /\ location = "servers")
    => /\ ENABLED ( /\ CreateTaskFails
                    /\ selectedDatacenters' = selectedDatacenters )
       /\ Len(selectedDatacenters) > 0
            => ENABLED
                 ( /\ CreateTaskFails
                   /\ selectedDatacenters' = selectedDatacenters
                   /\ ( ENABLED ( /\ ClickAddToQueue
                                  /\ run'.datacenters = selectedDatacenters
                                  /\ run'.calls[1].datacenter
                                       = selectedDatacenters[1] ) )' )

\* the task of the first of two datacenters is created and the call for the
\* second is pending, with both still selected: when that call is rejected
\* the button is enabled for a run over both again
C37_Witness ==
  /\ run.active
  /\ run.index = 2
  /\ location = "servers"
  /\ selectedDatacenters = DATACENTERS
  /\ run.datacenters = DATACENTERS
  /\ ENABLED (CreateTaskFails /\ QueueButtonEnabled')

\* C38: the datacenter list of a run is the selection of the moment the run
\* starts and stays the same while the run is in flight, whatever is toggled
\* meanwhile; the run issues calls for the datacenters of that list only;
\* and the step on which the run succeeds empties the whole selection, the
\* datacenters toggled on during the run included, with no call issued for
\* a datacenter outside the list.
C38_RunCoversSelectionAtStart ==
  [][ /\ (~run.active /\ run'.active)
         => run'.datacenters = selectedDatacenters
      /\ (run.active /\ run'.active)
         => /\ run'.datacenters = run.datacenters
            /\ Len(run'.calls) <= Len(run.datacenters)
            /\ \A i \in 1..Len(run'.calls) :
                 run'.calls[i].datacenter \in Members(run.datacenters)
      /\ (run.active /\ toasts' = <<ToastAddSucceeded>>)
         => /\ {run.calls[i].datacenter : i \in 1..Len(run.calls)}
                 = Members(run.datacenters)
            /\ selectedDatacenters' = << >> ]_vars

\* every call of a run over one datacenter has been issued while the other
\* datacenter, toggled on during the run, is selected
C38_Witness ==
  /\ run.active
  /\ run.index = Len(run.datacenters)
  /\ \E dc \in Members(selectedDatacenters) :
       /\ dc \notin Members(run.datacenters)
       /\ \A i \in 1..Len(run.calls) : run.calls[i].datacenter # dc

\* C39: an item of localStorage changes only on the step on which a
\* configuration check succeeds, and then it is the item under the key of
\* the plan of the card that issued the check that becomes the selection
\* captured by that check, no other item changing; a default check that
\* succeeds sets the confirmed flag of its card and writes nothing; and a
\* confirmed card whose plan has no saved item is not confirmed and has the
\* baseline selection when it is mounted again.
C39_OnlyConfigCheckPersists ==
  /\ [][ /\ \A key \in StorageKeys :
             (savedConfig'[key] # savedConfig[key])
               => /\ toasts' = <<ToastConfigConfirmed>>
                  /\ \E c \in BagToSet(checks) :
                       /\ c.kind = "config"
                       /\ checks' = checks (-) SetToBag({c})
                       /\ key = confirmedConfigKey(c.plan)
                       /\ savedConfig'[key]
                            = JSONstringify(c.selected, c.displayed)
                       /\ \A other \in StorageKeys \ {key} :
                            savedConfig'[other] = savedConfig[other]
         /\ (toasts' = <<ToastDefaultConfirmed>>)
            => /\ savedConfig' = savedConfig
               /\ ( (checks = SetToBag({StorageCall("default")}))
                      => configConfirmed' ) ]_vars
  /\ [](( /\ configConfirmed
           /\ ~localStorageGetItem(planCode).exists
           /\ \A c \in BagToSet(checks) : c.plan # planCode )
          => ENABLED ( /\ StorageMount
                       /\ planCode' = planCode
                       /\ ~configConfirmed'
                       /\ selected' = BaselineSelected ))

\* the card of one plan has been confirmed by a default check after a
\* non-baseline selection, its plan has no saved item, and the other plan's
\* item is there
C39_Witness ==
  /\ toasts = <<ToastDefaultConfirmed>>
  /\ configConfirmed
  /\ configChanged
  /\ selected # BaselineSelected
  /\ ~localStorageGetItem(planCode).exists
  /\ \E plan \in StoragePlans : localStorageGetItem(plan).exists

\* the step is a run of the initialisation effect on the mounted card
EffectRunsAgain ==
  /\ checks' = checks
  /\ toasts' = << >>
  /\ console' = MountLog(savedConfig)

\* C40: when the initialisation effect runs again on a mounted card and a
\* saved item that parses exists, the selected codes and the displayed texts
\* become those of the item, whatever was selected, the card is confirmed
\* and the modified flag is clear; when there is no such item, the confirmed
\* and the modified flag stay as they are and every family keeps its
\* selected code or takes the plan's baseline code.
C40_EffectRunsAgain ==
  [][ EffectRunsAgain
      => IF savedConfig.exists /\ savedConfig.parses
         THEN /\ \A f \in FamilySet :
                   /\ selected'[f] = JSONmember(savedConfig, f).code
                   /\ displayed'[f] = JSONmember(savedConfig, f).display
              /\ configConfirmed'
              /\ ~configChanged'
         ELSE /\ configConfirmed' = configConfirmed
              /\ configChanged' = configChanged
              /\ \A f \in FamilySet :
                   /\ selected'[f] \in {selected[f], FindDefault(f)}
                   /\ (FindDefault(f) # Null) => (selected'[f] = FindDefault(f)) ]_vars

\* a card with a saved item has a modified selection that differs from the
\* item: a new run of the effect puts the item's selection back and clears
\* the modified flag
C40_Witness ==
  /\ location = "servers"
  /\ savedConfig.exists
  /\ savedConfig.parses
  /\ configChanged
  /\ \E f \in FamilySet : selected[f] # JSONmember(savedConfig, f).code
  /\ ENABLED ( /\ ServerChanged
               /\ selected' # selected
               /\ configConfirmed'
               /\ ~configChanged' )

====
